---- MODULE Spec2Model ----
(***************************************************************************)
(* Model of refactor_forge: the import table                               *)
(* (analyzer/import_analyzer.py), boundary detection                       *)
(* (analyzer/module_detector.py), dependency graph construction            *)
(* (analyzer/dependency_analyzer.py), purpose extraction                   *)
(* (analyzer/semantic_analyzer.py), their sequencing                       *)
(* (analyzer/code_analyzer.py), package generation                         *)
(* (transformer/__init__.py, code_generator.py, filesystem.py) and a run   *)
(* of the command line (cli.py).                                           *)
(*                                                                         *)
(* A source text is the sequence of its lines (source_code.split('\n')).   *)
(* Lines are drawn from a small alphabet of concrete texts; what the       *)
(* regular expressions and the Python parser make of each text is given    *)
(* line by line below.                                                     *)
(***************************************************************************)
EXTENDS Integers, Sequences, FiniteSets, TLC

VARIABLES
    source,               \* lines of the analysed file
    pc,                   \* position of the running operation
    error,                \* exception that ended the operation, "none" if none
    modules,              \* list of module dictionaries
    dependencies,         \* the DiGraph: [nodes, edges]
    boundaries,           \* argument of _group_related_boundaries
    proximity_threshold,  \* argument of _group_related_boundaries
    grouped,              \* value returned by _group_related_boundaries
    symbol_table,         \* the table analyze_imports returns
    args,                 \* arguments of the function called directly
    ret,                  \* value returned to the caller
    fs,                   \* the filesystem: [dirs, files]
    options,              \* the RefactorOptions of a run
    steps,                \* the steps of execute_refactoring run so far
    transformation,       \* value returned by transform_code
    frame                 \* local variables of the running import_manager call

vars == <<source, pc, error, modules, dependencies,
          boundaries, proximity_threshold, grouped,
          symbol_table, args, ret, fs, options, steps, transformation,
          frame>>

\* the variables of the transformer and of the command line
io_vars == <<args, ret, fs, options, steps, transformation>>

\* a filesystem with no directory and no file
EmptyFs == [dirs |-> {}, files |-> [p \in {} |-> <<>>]]

\* before a run: nothing called, nothing returned
IoInit ==
    /\ args = <<>>
    /\ ret = <<>>
    /\ fs = EmptyFs
    /\ options = <<>>
    /\ steps = <<>>
    /\ transformation = <<>>
    /\ frame = <<>>
    /\ frame = <<>>

(***************************************************************************)
(* Bounds                                                                  *)
(***************************************************************************)
MaxBlocks == 4          \* a source is made of at most this many blocks

(***************************************************************************)
(* The line alphabet.  "|" in HeaderLine stands for the box glyphs.        *)
(***************************************************************************)
BlankLine == ""
CodeLine == "x = 1"
DividerLine == "# ---- a ----"
IndentedDividerLine == "    # ---- b ----"
OpenerLine == "if x:"
IndentedLine == "    y = 1"
HeaderLine == "# | Widgets |"
DefLine == "def helper(x):"
ReturnLine == "    return x"
CallLine == "result = helper(x)"
AnnAssignLine == "helper: int = 0"
AttrAssignLine == "result.attr = 1"
AttrCallLine == "x.run()"
ClassLine == "class Foo:"
PassLine == "    pass"
InitLine == "def __init__(self):"
CommentLine == "# Explains things"
DocLine == "\"\"\"Summary.\"\"\""
EmptyDocLine == "\"\"\"\"\"\""
SpaceDocLine == "\"\"\"   \"\"\""
TripleQuoteLine == "\"\"\""
DocTextLine == "Details."
SpacedHeaderLine == "# | Data Model |"
CamelDefLine == "def doThing(x):"
CapitalDefLine == "def Helper(x):"
LowerClassLine == "class foo:"
ImportLine == "import os"
ImportAsLine == "import json as os"
ImportTwoLine == "import sys, json as d"
FromImportLine == "from json import dumps as d"
FromPlainLine == "from os import path"
NestedImportLine == "    import sys as os"
NestedFromLine == "    from json import loads as d"

Range(s) == {s[i] : i \in DOMAIN s}

\* str.strip() on a line
Strip(line) ==
    CASE line = IndentedDividerLine -> "# ---- b ----"
      [] line = IndentedLine -> "y = 1"
      [] line = ReturnLine -> "return x"
      [] line = PassLine -> "pass"
      [] line = NestedImportLine -> "import sys as os"
      [] line = NestedFromLine -> "from json import loads as d"
      [] OTHER -> line

\* the five boundary patterns, by what they describe
COMPILED_BOUNDARY_PATTERNS == <<"rule", "box", "title", "class", "decorated">>

\* pattern.match(text): the pattern matches at the start of text
PatternMatch(pattern, text) ==
    \/ pattern = "rule" /\ text \in {"# ---- a ----", "# ---- b ----"}
    \/ pattern = "class" /\ text = ClassLine

AnyPatternMatches(text) ==
    \E p \in DOMAIN COMPILED_BOUNDARY_PATTERNS :
        PatternMatch(COMPILED_BOUNDARY_PATTERNS[p], text)

(***************************************************************************)
(* The parser on the alphabet: comments and blank lines are ignored, a     *)
(* compound-statement header needs an indented body, and an indented line  *)
(* needs a header or an indented line before it.                           *)
(***************************************************************************)
IsComment(line) ==
    line \in {DividerLine, IndentedDividerLine, HeaderLine, CommentLine,
              SpacedHeaderLine}
IsCode(line) == line # BlankLine /\ ~IsComment(line)
IsIndented(line) ==
    line \in {IndentedLine, ReturnLine, PassLine, NestedImportLine, NestedFromLine}
IsOpener(line) ==
    line \in {OpenerLine, DefLine, ClassLine, InitLine,
              CamelDefLine, CapitalDefLine, LowerClassLine}

RECURSIVE ParsesFrom(_, _, _, _)
\* prev: what the last statement line was; in_string: inside a
\* triple-quoted string that an earlier line opened
ParsesFrom(lines, i, prev, in_string) ==
    IF i > Len(lines) THEN ~in_string /\ prev # "opener"
    ELSE IF in_string
         THEN /\ lines[i] # DocLine
              /\ ParsesFrom(lines, i + 1, prev, lines[i] # TripleQuoteLine)
    ELSE IF ~IsCode(lines[i]) THEN ParsesFrom(lines, i + 1, prev, FALSE)
    ELSE IF lines[i] = DocTextLine THEN FALSE
    ELSE IF IsIndented(lines[i])
         THEN prev \in {"opener", "body"}
              /\ ParsesFrom(lines, i + 1, "body", FALSE)
         ELSE prev # "opener"
              /\ ParsesFrom(lines, i + 1,
                            IF IsOpener(lines[i]) THEN "opener" ELSE "top",
                            lines[i] = TripleQuoteLine)

\* ast.parse(text) succeeds
Parses(lines) == ParsesFrom(lines, 1, "top", FALSE)

(***************************************************************************)
(* The syntax tree, as the sequence of the nodes ast.walk yields.          *)
(*   id          name of a definition, identifier of a Name                *)
(*   top         the node is a direct child of the Module node             *)
(*   value_type, value_id   the func of a Call, the value of an Attribute, *)
(*               the target of an AnnAssign (type and identifier)          *)
(*   targets     the targets of an Assign                                  *)
(*   names       the aliases of an Import or ImportFrom: [name, asname]    *)
(*   module      the module of an ImportFrom                               *)
(***************************************************************************)
BaseNode ==
    [type |-> "", id |-> "", ctx |-> "", lineno |-> 0, top |-> FALSE,
     value_type |-> "", value_id |-> "", targets |-> <<>>,
     args |-> <<>>, methods |-> <<>>, docstring |-> "",
     names |-> <<>>, module |-> ""]

\* Python's None, where a string is expected
None == "<None>"

\* an ast.alias
Alias(name, asname) == [name |-> name, asname |-> asname]
ImportNode(names) == [BaseNode EXCEPT !.type = "Import", !.names = names]
ImportFromNode(module, names) ==
    [BaseNode EXCEPT !.type = "ImportFrom", !.module = module, !.names = names]

NameNode(id, ctx) == [BaseNode EXCEPT !.type = "Name", !.id = id, !.ctx = ctx]
AssignNode(target) ==
    [BaseNode EXCEPT !.type = "Assign", !.targets = <<target>>]
CallNode(func_type, func_id) ==
    [BaseNode EXCEPT !.type = "Call", !.value_type = func_type, !.value_id = func_id]
AttributeNode(value_id, ctx) ==
    [BaseNode EXCEPT !.type = "Attribute", !.ctx = ctx,
                     !.value_type = "Name", !.value_id = value_id]

\* the nodes a line contributes, its statement first
LineNodes(line) ==
    CASE line = CodeLine ->
            <<AssignNode(NameNode("x", "Store")), NameNode("x", "Store")>>
      [] line = IndentedLine ->
            <<AssignNode(NameNode("y", "Store")), NameNode("y", "Store")>>
      [] line = OpenerLine ->
            <<[BaseNode EXCEPT !.type = "If"], NameNode("x", "Load")>>
      [] line = DefLine ->
            <<[BaseNode EXCEPT !.type = "FunctionDef", !.id = "helper",
                               !.args = <<"x">>]>>
      [] line = ReturnLine ->
            <<[BaseNode EXCEPT !.type = "Return"], NameNode("x", "Load")>>
      [] line = CallLine ->
            <<AssignNode(NameNode("result", "Store")), NameNode("result", "Store"),
              CallNode("Name", "helper"), NameNode("helper", "Load"),
              NameNode("x", "Load")>>
      [] line = AnnAssignLine ->
            <<[BaseNode EXCEPT !.type = "AnnAssign", !.value_type = "Name",
                               !.value_id = "helper"],
              NameNode("helper", "Store"), NameNode("int", "Load")>>
      [] line = AttrAssignLine ->
            <<AssignNode(AttributeNode("result", "Store")),
              AttributeNode("result", "Store"), NameNode("result", "Load")>>
      [] line = AttrCallLine ->
            <<[BaseNode EXCEPT !.type = "Expr"], CallNode("Attribute", ""),
              AttributeNode("x", "Load"), NameNode("x", "Load")>>
      [] line = ClassLine ->
            <<[BaseNode EXCEPT !.type = "ClassDef", !.id = "Foo"]>>
      [] line = PassLine ->
            <<[BaseNode EXCEPT !.type = "Pass"]>>
      [] line = ImportLine -> <<ImportNode(<<Alias("os", None)>>)>>
      [] line = ImportAsLine -> <<ImportNode(<<Alias("json", "os")>>)>>
      [] line = ImportTwoLine ->
            <<ImportNode(<<Alias("sys", None), Alias("json", "d")>>)>>
      [] line = FromImportLine ->
            <<ImportFromNode("json", <<Alias("dumps", "d")>>)>>
      [] line = FromPlainLine ->
            <<ImportFromNode("os", <<Alias("path", None)>>)>>
      [] line = NestedImportLine -> <<ImportNode(<<Alias("sys", "os")>>)>>
      [] line = NestedFromLine ->
            <<ImportFromNode("json", <<Alias("loads", "d")>>)>>
      [] line = CamelDefLine ->
            <<[BaseNode EXCEPT !.type = "FunctionDef", !.id = "doThing",
                               !.args = <<"x">>]>>
      [] line = CapitalDefLine ->
            <<[BaseNode EXCEPT !.type = "FunctionDef", !.id = "Helper",
                               !.args = <<"x">>]>>
      [] line = LowerClassLine ->
            <<[BaseNode EXCEPT !.type = "ClassDef", !.id = "foo"]>>
      [] line = InitLine ->
            <<[BaseNode EXCEPT !.type = "FunctionDef", !.id = "__init__",
                               !.args = <<"self">>]>>
      [] line \in {DocLine, EmptyDocLine, SpaceDocLine, TripleQuoteLine} ->
            <<[BaseNode EXCEPT !.type = "Expr"]>>
      [] OTHER -> <<>>

RECURSIVE WalkFrom(_, _, _)
WalkFrom(lines, i, in_string) ==
    IF i > Len(lines) THEN <<>>
    ELSE IF in_string
         THEN WalkFrom(lines, i + 1, lines[i] # TripleQuoteLine)
    ELSE [k \in DOMAIN LineNodes(lines[i]) |->
             [LineNodes(lines[i])[k] EXCEPT
                 !.lineno = i,
                 !.top = (k = 1 /\ ~IsIndented(lines[i]))]]
         \o WalkFrom(lines, i + 1, lines[i] = TripleQuoteLine)

\* the nodes of ast.walk(ast.parse(text)), for a text that parses
AstWalk(lines) == WalkFrom(lines, 1, FALSE)

\* how far below its statement each node of LineNodes(line) hangs
SubDepths(line) ==
    CASE line = CallLine -> <<0, 1, 1, 2, 2>>
      [] line = AttrAssignLine -> <<0, 1, 2>>
      [] line = AttrCallLine -> <<0, 1, 2, 3>>
      [] OTHER -> [k \in DOMAIN LineNodes(line) |-> IF k = 1 THEN 0 ELSE 1]

RECURSIVE DepthsFrom(_, _, _)
\* the depth in the tree of each node of WalkFrom: a statement at the left
\* margin is a child of the Module node, an indented one a child of the
\* compound statement above it
DepthsFrom(lines, i, in_string) ==
    IF i > Len(lines) THEN <<>>
    ELSE IF in_string
         THEN DepthsFrom(lines, i + 1, lines[i] # TripleQuoteLine)
    ELSE [k \in DOMAIN LineNodes(lines[i]) |->
             (IF IsIndented(lines[i]) THEN 2 ELSE 1) + SubDepths(lines[i])[k]]
         \o DepthsFrom(lines, i + 1, lines[i] = TripleQuoteLine)

\* the deepest node of the alphabet
MaxDepth == 5

RECURSIVE AtLevel(_, _, _, _)
\* the nodes of one depth, in source order
AtLevel(tree, depths, k, level) ==
    IF k > Len(tree) THEN <<>>
    ELSE (IF depths[k] = level THEN <<tree[k]>> ELSE <<>>)
         \o AtLevel(tree, depths, k + 1, level)

RECURSIVE LevelsFrom(_, _, _)
LevelsFrom(tree, depths, level) ==
    IF level > MaxDepth THEN <<>>
    ELSE AtLevel(tree, depths, 1, level) \o LevelsFrom(tree, depths, level + 1)

\* the order in which ast.walk yields the nodes: breadth first, every node
\* of one depth before any node of the next
BfsWalk(lines) == LevelsFrom(AstWalk(lines), DepthsFrom(lines, 1, FALSE), 1)

\* name.startswith('_')
StartsWithUnderscore(name) == name \in {"_helper", "_Foo", "__init__"}

\* how a call ends: an exception, or a value
Raised(e) == [raised |-> TRUE, error |-> e, value |-> <<>>]
Returned(v) == [raised |-> FALSE, error |-> "none", value |-> v]

(***************************************************************************)
(* import_analyzer.py                                                      *)
(***************************************************************************)
\* name.asname or name.name
LocalName(alias) == IF alias.asname # None THEN alias.asname ELSE alias.name

\* the dictionary stored for one alias of an import statement
ImportEntry(node, alias) ==
    IF node.type = "Import"
    THEN [type |-> "import", source |-> alias.name,
          alias |-> alias.asname, lineno |-> node.lineno]
    ELSE [type |-> "import_from", source |-> node.module, name |-> alias.name,
          alias |-> alias.asname, lineno |-> node.lineno]

RECURSIVE NamesLoop(_, _, _)
\* for name in node.names: symbol_table[...] = {...}
NamesLoop(node, n, table) ==
    IF n > Len(node.names) THEN table
    ELSE NamesLoop(node, n + 1,
                   (LocalName(node.names[n]) :> ImportEntry(node, node.names[n]))
                   @@ table)

RECURSIVE ImportLoop(_, _, _)
\* for node in ast.walk(tree)
ImportLoop(walk, k, table) ==
    IF k > Len(walk) THEN table
    ELSE IF walk[k].type \in {"Import", "ImportFrom"}
    THEN ImportLoop(walk, k + 1, NamesLoop(walk[k], 1, table))
    ELSE ImportLoop(walk, k + 1, table)

analyze_imports(lines) ==
    IF ~Parses(lines) THEN Raised("SyntaxError")
    ELSE Returned(ImportLoop(BfsWalk(lines), 1, <<>>))

(***************************************************************************)
(* module_detector.py                                                      *)
(***************************************************************************)
RECURSIVE SectionScan(_, _, _)
SectionScan(lines, i, p) ==
    IF i > Len(lines) THEN <<>>
    ELSE IF p > Len(COMPILED_BOUNDARY_PATTERNS) THEN SectionScan(lines, i + 1, 1)
    ELSE (IF PatternMatch(COMPILED_BOUNDARY_PATTERNS[p], lines[i])
          THEN <<i - 1>> ELSE <<>>) \o SectionScan(lines, i, p + 1)

_find_section_boundaries(lines) == SectionScan(lines, 1, 1)

\* The test of a public definition evaluates ast.iter_ancestors, which the
\* ast module does not have: the scan raises AttributeError at the first
\* class or function whose name has no leading underscore, and otherwise
\* appends nothing.
_find_definition_boundaries(tree) ==
    IF \E k \in DOMAIN tree :
          /\ tree[k].type \in {"ClassDef", "FunctionDef"}
          /\ ~StartsWithUnderscore(tree[k].id)
    THEN Raised("AttributeError")
    ELSE Returned(<<>>)

RECURSIVE SortedSeq(_)
\* sorted(set(...))
SortedSeq(S) ==
    IF S = {} THEN <<>>
    ELSE LET m == CHOOSE x \in S : \A y \in S : x <= y
         IN <<m>> \o SortedSeq(S \ {m})

RECURSIVE GroupLoop(_, _, _, _)
GroupLoop(rest, threshold, acc, current_group) ==
    IF rest = <<>>
    THEN (IF current_group # <<>> THEN Append(acc, current_group) ELSE acc)
    ELSE LET boundary == Head(rest) IN
         IF current_group = <<>>
            \/ boundary - current_group[Len(current_group)] < threshold
         THEN GroupLoop(Tail(rest), threshold, acc, Append(current_group, boundary))
         ELSE GroupLoop(Tail(rest), threshold, Append(acc, current_group), <<boundary>>)

\* the grouping with the comparison "<=" in place of "<"
GroupRelatedBoundariesInclusive(bs, threshold) ==
    GroupLoop(bs, threshold + 1, <<>>, <<>>)

_group_related_boundaries(bs, threshold) == GroupLoop(bs, threshold, <<>>, <<>>)

\* the default of the proximity_threshold parameter
DEFAULT_PROXIMITY_THRESHOLD == 10

RECURSIVE _find_module_start(_, _)
\* start_line is 0-based; Python's lines[k] is lines[k + 1] here
_find_module_start(start_line, lines) ==
    IF start_line > 0
    THEN LET prev_line == Strip(lines[start_line]) IN
         IF prev_line = "" \/ AnyPatternMatches(prev_line)
         THEN start_line
         ELSE _find_module_start(start_line - 1, lines)
    ELSE start_line

\* an expansion that stops in front of every blank line
FindModuleEndAtFirstBlank(end_line, lines) ==
    LET Stops(e) == \/ e >= Len(lines) - 1
                    \/ AnyPatternMatches(Strip(lines[e + 2]))
                    \/ Strip(lines[e + 2]) = ""
    IN CHOOSE e \in end_line..Len(lines) :
           Stops(e) /\ \A d \in end_line..(e - 1) : ~Stops(d)

RECURSIVE _find_module_end(_, _)
\* end_line is 0-based; Python's lines[end_line + 1] is lines[end_line + 2]
_find_module_end(end_line, lines) ==
    IF end_line < Len(lines) - 1
    THEN LET next_line == Strip(lines[end_line + 2]) IN
         IF AnyPatternMatches(next_line) THEN end_line
         ELSE IF /\ next_line = ""
                 /\ end_line + 2 < Len(lines)
                 /\ Strip(lines[end_line + 3]) = ""
              THEN end_line
              ELSE _find_module_end(end_line + 1, lines)
    ELSE end_line

NoMatch == "<no match>"

\* group(1) of r"class ([A-Z][a-zA-Z0-9_]*)" searched in one line
ClassNameIn(line) == IF line = ClassLine THEN "Foo" ELSE NoMatch
\* group(1) of the boxed-label pattern searched in one line
HeaderLabelIn(line) ==
    CASE line = HeaderLine -> "Widgets"
      [] line = SpacedHeaderLine -> "Data Model"
      [] OTHER -> NoMatch
\* group(1) of r"def ([a-z][a-zA-Z0-9_]*)\(" searched in one line
FuncNameIn(line) ==
    CASE line = DefLine -> "helper"
      [] line = CamelDefLine -> "doThing"
      [] OTHER -> NoMatch

\* re.search over the content: the match in the first line that has one
FirstMatch(content, In(_)) ==
    IF \E i \in DOMAIN content : In(content[i]) # NoMatch
    THEN In(content[CHOOSE i \in DOMAIN content :
                       /\ In(content[i]) # NoMatch
                       /\ \A j \in 1..(i - 1) : In(content[j]) = NoMatch])
    ELSE NoMatch

\* str.lower()
Lower(s) ==
    CASE s = "Foo" -> "foo"
      [] s = "Widgets" -> "widgets"
      [] s = "Data Model" -> "data model"
      [] s = "doThing" -> "dothing"
      [] s = "Helper" -> "helper"
      [] OTHER -> s

\* str.replace(' ', '_')
SpacesToUnderscores(s) ==
    CASE s = "data model" -> "data_model"
      [] s = "Data Model" -> "Data_Model"
      [] OTHER -> s

\* the name search with the header label tried before the class name
ExtractModuleNameHeaderFirst(content, default) ==
    LET class_match == FirstMatch(content, ClassNameIn)
        header_match == FirstMatch(content, HeaderLabelIn)
        func_match == FirstMatch(content, FuncNameIn)
    IN IF header_match # NoMatch THEN SpacesToUnderscores(Lower(header_match))
       ELSE IF class_match # NoMatch THEN Lower(class_match)
       ELSE IF func_match # NoMatch THEN func_match
       ELSE default

_extract_module_name(content, default) ==
    LET class_match == FirstMatch(content, ClassNameIn)
        header_match == FirstMatch(content, HeaderLabelIn)
        func_match == FirstMatch(content, FuncNameIn)
    IN IF class_match # NoMatch THEN Lower(class_match)
       ELSE IF header_match # NoMatch THEN SpacesToUnderscores(Lower(header_match))
       ELSE IF func_match # NoMatch THEN func_match
       ELSE default

\* f"module_{i}"
ModuleDefaultName(i) == "module_" \o ToString(i)

\* ModuleOfGroup with the slice lines[start_line:end_line], which drops the
\* last line of the range
ModuleOfGroupShortSlice(i, group, lines) ==
    LET start_line == _find_module_start(group[1], lines)
        end_line == _find_module_end(group[Len(group)], lines)
        content == SubSeq(lines, start_line + 1, end_line)
    IN [name |-> _extract_module_name(content, ModuleDefaultName(i)),
        start_line |-> start_line,
        end_line |-> end_line,
        content |-> content]

\* the dictionary appended for the group at position i (0-based)
ModuleOfGroup(i, group, lines) ==
    LET start_line == _find_module_start(group[1], lines)
        end_line == _find_module_end(group[Len(group)], lines)
        content == SubSeq(lines, start_line + 1, end_line + 1)
    IN [name |-> _extract_module_name(content, ModuleDefaultName(i)),
        start_line |-> start_line,
        end_line |-> end_line,
        content |-> content]

\* the definitions made from the groups taken last to first
CreateModuleDefinitionsReversed(grouped_boundaries, lines) ==
    LET n == Len(grouped_boundaries)
    IN [i \in 1..n |-> ModuleOfGroup(i - 1, grouped_boundaries[n - i + 1], lines)]

_create_module_definitions(grouped_boundaries, lines) ==
    [i \in 1..Len(grouped_boundaries) |->
        ModuleOfGroup(i - 1, grouped_boundaries[i], lines)]

\* sorted(set(section_boundaries + class_funcs))
AllBoundaries(lines) ==
    SortedSeq(Range(_find_section_boundaries(lines))
              \cup Range(_find_definition_boundaries(AstWalk(lines)).value))

detect_module_boundaries(lines) ==
    IF ~Parses(lines)
    THEN Raised("SyntaxError")
    ELSE IF _find_definition_boundaries(AstWalk(lines)).raised
    THEN Raised("AttributeError")
    ELSE Returned(_create_module_definitions(
                      _group_related_boundaries(AllBoundaries(lines),
                                                DEFAULT_PROXIMITY_THRESHOLD),
                      lines))

(***************************************************************************)
(* dependency_analyzer.py                                                  *)
(***************************************************************************)
extract_referenced_names(tree) ==
    {tree[k].id : k \in {k \in DOMAIN tree :
        tree[k].type = "Name" /\ tree[k].ctx = "Load"}}
    \cup {tree[k].value_id : k \in {k \in DOMAIN tree :
        tree[k].type = "Call" /\ tree[k].value_type = "Name"}}
    \cup {tree[k].value_id : k \in {k \in DOMAIN tree :
        tree[k].type = "Attribute" /\ tree[k].ctx = "Load"
        /\ tree[k].value_type = "Name"}}

extract_defined_names(tree) ==
    {tree[k].id : k \in {k \in DOMAIN tree :
        tree[k].type \in {"FunctionDef", "ClassDef"}}}
    \cup UNION {{tree[k].targets[t].id : t \in {t \in DOMAIN tree[k].targets :
                    tree[k].targets[t].type = "Name"}} :
                k \in {k \in DOMAIN tree : tree[k].type = "Assign"}}
    \cup {tree[k].value_id : k \in {k \in DOMAIN tree :
        tree[k].type = "AnnAssign" /\ tree[k].value_type = "Name"}}

EmptyGraph == [nodes |-> {}, edges |-> {}]

\* add_edge with its arguments swapped
AddEdgeSwapped(g, u, v) ==
    [nodes |-> g.nodes \cup {u, v}, edges |-> g.edges \cup {<<v, u>>}]

\* DiGraph.add_edge(u, v)
AddEdge(g, u, v) ==
    [nodes |-> g.nodes \cup {u, v}, edges |-> g.edges \cup {<<u, v>>}]

RECURSIVE InnerLoop(_, _, _, _, _)
\* for j, other_module in enumerate(modules)
InnerLoop(ms, i, j, referenced_names, g) ==
    IF j > Len(ms) THEN Returned(g)
    ELSE IF i = j THEN InnerLoop(ms, i, j + 1, referenced_names, g)
    ELSE IF ~Parses(ms[j].content) THEN Raised("SyntaxError")
    ELSE LET defined_names == extract_defined_names(AstWalk(ms[j].content)) IN
         InnerLoop(ms, i, j + 1, referenced_names,
                   IF referenced_names \cap defined_names # {}
                   THEN AddEdge(g, ms[i].name, ms[j].name)
                   ELSE g)

RECURSIVE OuterLoop(_, _, _)
\* for i, module in enumerate(modules)
OuterLoop(ms, i, g) ==
    IF i > Len(ms) THEN Returned(g)
    ELSE IF ~Parses(ms[i].content) THEN Raised("SyntaxError")
    ELSE LET r == InnerLoop(ms, i, 1,
                            extract_referenced_names(AstWalk(ms[i].content)), g)
         IN IF r.raised THEN r ELSE OuterLoop(ms, i + 1, r.value)

build_dependency_graph(ms) ==
    OuterLoop(ms, 1, [nodes |-> {ms[i].name : i \in DOMAIN ms}, edges |-> {}])

(***************************************************************************)
(* semantic_analyzer.py                                                    *)
(***************************************************************************)
TQ == "\"\"\""
NL == "\n"

\* a line as the pieces the docstring pattern distinguishes: the
\* triple-quote delimiters, runs of white space, and other text
Pieces(line) ==
    CASE line = BlankLine -> <<>>
      [] line = DocLine -> <<TQ, "Summary.", TQ>>
      [] line = EmptyDocLine -> <<TQ, TQ>>
      [] line = SpaceDocLine -> <<TQ, "   ", TQ>>
      [] line = TripleQuoteLine -> <<TQ>>
      [] Strip(line) # line -> <<"    ", Strip(line)>>
      [] OTHER -> <<line>>

RECURSIVE ContentPieces(_)
\* the content text: its lines joined by newline
ContentPieces(content) ==
    IF content = <<>> THEN <<>>
    ELSE IF Len(content) = 1 THEN Pieces(content[1])
    ELSE Pieces(content[1]) \o <<NL>> \o ContentPieces(Tail(content))

IsSpace(piece) == piece \in {NL, "   ", "    "}

RECURSIVE LStrip(_)
LStrip(ps) == IF ps # <<>> /\ IsSpace(Head(ps)) THEN LStrip(Tail(ps)) ELSE ps
RECURSIVE RStrip(_)
RStrip(ps) ==
    IF ps # <<>> /\ IsSpace(ps[Len(ps)]) THEN RStrip(SubSeq(ps, 1, Len(ps) - 1)) ELSE ps
\* str.strip()
StripPieces(ps) == RStrip(LStrip(ps))

\* str.split('\n')[0]
FirstLine(ps) ==
    IF \E i \in DOMAIN ps : ps[i] = NL
    THEN SubSeq(ps, 1, (CHOOSE i \in DOMAIN ps :
                          ps[i] = NL /\ \A j \in 1..(i - 1) : ps[j] # NL) - 1)
    ELSE ps

RECURSIVE Join(_)
Join(ps) == IF ps = <<>> THEN "" ELSE Head(ps) \o Join(Tail(ps))

\* re.search(r'"""(.*?)"""', content, re.DOTALL): the text between the
\* first triple quote and the next one
DocstringMatch(content) ==
    LET ps == ContentPieces(content)
        quotes == {i \in DOMAIN ps : ps[i] = TQ}
    IN IF Cardinality(quotes) < 2 THEN [found |-> FALSE, group |-> <<>>]
       ELSE LET a == CHOOSE i \in quotes : \A j \in quotes : i <= j
                b == CHOOSE i \in quotes \ {a} : \A j \in quotes \ {a} : i <= j
            IN [found |-> TRUE, group |-> SubSeq(ps, a + 1, b - 1)]

\* group(1) of r'# ([A-Za-z].*)' searched in one line
CommentTextIn(line) == IF line = CommentLine THEN "Explains things" ELSE NoMatch

\* the purpose table, in the order of its entries
MODULE_PURPOSE_INDICATORS ==
    <<[purpose |-> "util", indicators |-> <<"utility", "helper", "tool", "common">>],
      [purpose |-> "model",
       indicators |-> <<"model", "entity", "data class", "schema", "structure">>],
      [purpose |-> "service",
       indicators |-> <<"service", "manager", "handler", "processor">>],
      [purpose |-> "controller",
       indicators |-> <<"controller", "view", "endpoint", "route">>],
      [purpose |-> "config",
       indicators |-> <<"config", "setting", "parameter", "environment">>]>>

\* indicator in name, on the names of the model
IsSubstring(indicator, name) ==
    <<indicator, name>> \in {<<"helper", "helper">>, <<"model", "data_model">>,
                             <<"tool", "tools_manager">>,
                             <<"manager", "tools_manager">>}

IsDefaultName(name) == \E i \in 0..MaxBlocks + 1 : name = ModuleDefaultName(i)
DefaultIndex(name) == CHOOSE i \in 0..MaxBlocks + 1 : name = ModuleDefaultName(i)

\* name.replace('_', ' ')
UnderscoresToSpaces(name) ==
    CASE IsDefaultName(name) -> "module " \o ToString(DefaultIndex(name))
      [] name = "data_model" -> "data model"
      [] name = "tools_manager" -> "tools manager"
      [] OTHER -> name

\* str.title()
Title(s) ==
    CASE s = "util" -> "Util"
      [] s = "model" -> "Model"
      [] s = "service" -> "Service"
      [] s = "controller" -> "Controller"
      [] s = "config" -> "Config"
      [] s = "widgets" -> "Widgets"
      [] s = "foo" -> "Foo"
      [] s = "helper" -> "Helper"
      [] s = "data model" -> "Data Model"
      [] s = "tools manager" -> "Tools Manager"
      [] \E i \in 0..MaxBlocks + 1 : s = "module " \o ToString(i) ->
            "Module " \o ToString(CHOOSE i \in 0..MaxBlocks + 1 :
                                      s = "module " \o ToString(i))
      [] OTHER -> s

\* "class" in line, "def __init__" in line, line.count("def ")
ContainsClass(line) == line \in {ClassLine, LowerClassLine}
ContainsDefInit(line) == line = InitLine
CountDef(line) ==
    IF line \in {DefLine, InitLine, CamelDefLine, CapitalDefLine} THEN 1 ELSE 0

RECURSIVE CountDefs(_)
CountDefs(content) ==
    IF content = <<>> THEN 0 ELSE CountDef(Head(content)) + CountDefs(Tail(content))

infer_purpose(content, name) ==
    LET hits == {p \in DOMAIN MODULE_PURPOSE_INDICATORS :
                    \E k \in DOMAIN MODULE_PURPOSE_INDICATORS[p].indicators :
                        IsSubstring(MODULE_PURPOSE_INDICATORS[p].indicators[k],
                                    Lower(name))}
    IN IF hits # {}
       THEN Title(MODULE_PURPOSE_INDICATORS[
                      CHOOSE p \in hits : \A q \in hits : p <= q].purpose)
            \o " module for " \o UnderscoresToSpaces(name)
       ELSE IF (\E i \in DOMAIN content : ContainsClass(content[i]))
               /\ (\E i \in DOMAIN content : ContainsDefInit(content[i]))
       THEN "Defines the " \o Title(UnderscoresToSpaces(name)) \o " entity"
       ELSE IF CountDefs(content) > 3
       THEN "Provides " \o UnderscoresToSpaces(name) \o " functionality"
       ELSE "Handles " \o UnderscoresToSpaces(name) \o " operations"

IsTopFunctionDef(node) == node.top /\ node.type = "FunctionDef"
IsTopClassDef(node) == node.top /\ node.type = "ClassDef"

extract_functions(tree) ==
    LET defs == SelectSeq(tree, IsTopFunctionDef) IN
    [k \in DOMAIN defs |->
        [name |-> defs[k].id, lineno |-> defs[k].lineno,
         args |-> defs[k].args, docstring |-> defs[k].docstring]]

extract_classes(tree) ==
    LET defs == SelectSeq(tree, IsTopClassDef) IN
    [k \in DOMAIN defs |->
        [name |-> defs[k].id, lineno |-> defs[k].lineno,
         methods |-> defs[k].methods, docstring |-> defs[k].docstring]]

\* the module dictionary after the body of the loop has run on it
EnrichedModule(module) ==
    LET content == module.content
        tree == AstWalk(content)
        signatures == [functions |-> extract_functions(tree),
                       classes |-> extract_classes(tree)]
        docstring_match == DocstringMatch(content)
        docstring == StripPieces(docstring_match.group)
        comment_match == FirstMatch(content, CommentTextIn)
    IN IF docstring_match.found
       THEN [purpose |-> Join(StripPieces(FirstLine(docstring))),
             docstring |-> Join(docstring)] @@ signatures @@ module
       ELSE IF comment_match # NoMatch
       THEN [purpose |-> comment_match] @@ signatures @@ module
       ELSE [purpose |-> infer_purpose(content, module.name)]
            @@ signatures @@ module

RECURSIVE PurposeLoop(_, _)
\* for module in modules
PurposeLoop(ms, i) ==
    IF i > Len(ms) THEN Returned(ms)
    ELSE IF ~Parses(ms[i].content) THEN Raised("SyntaxError")
    ELSE PurposeLoop([ms EXCEPT ![i] = EnrichedModule(ms[i])], i + 1)

extract_semantic_purpose(ms) == PurposeLoop(ms, 1)

(***************************************************************************)
(* Paths and the filesystem.  A path is the sequence of its components;    *)
(* str(path) joins them with "/".  The filesystem is the set of its        *)
(* directories and the content of each of its files.                       *)
(***************************************************************************)
RECURSIVE PathStr(_)
\* str(path)
PathStr(p) ==
    IF Len(p) = 0 THEN "."
    ELSE IF Len(p) = 1 THEN p[1]
    ELSE PathStr(SubSeq(p, 1, Len(p) - 1)) \o "/" \o p[Len(p)]

\* the directories and file names the runs of the model can meet
DirUniverse == {<<"src">>, <<"src", "my_tool">>, <<"src", "mypkg">>,
                <<"out">>, <<"build">>, <<"build", "out">>}
FileNameUniverse ==
    {"__init__.py", "README.md", "MyTool.py", "old.py", "cache",
     "module_0.py", "module_1.py", "module_2.py", "helper.py", "widgets.py",
     "data_model.py", "foo.py"}
PathUniverse ==
    DirUniverse \cup {Append(d, f) : d \in DirUniverse, f \in FileNameUniverse}

\* Path(text)
Path(text) == CHOOSE p \in PathUniverse : PathStr(p) = text

\* path.parent
Parent(p) == SubSeq(p, 1, Len(p) - 1)

\* path.exists()
Exists(f, p) == p \in f.dirs \/ p \in DOMAIN f.files

\* path.mkdir(parents=True, exist_ok=True)
Mkdir(f, p) == [f EXCEPT !.dirs = @ \cup {SubSeq(p, 1, n) : n \in 1..Len(p)}]

\* open(path, "w").write(content)
WriteFile(f, p, content) == [f EXCEPT !.files = (p :> content) @@ @]

\* path.unlink() of a file, shutil.rmtree(path) of a directory
Remove(f, p) ==
    LET Under(q) == Len(q) >= Len(p) /\ SubSeq(q, 1, Len(p)) = p
    IN [dirs |-> {d \in f.dirs : ~Under(d)},
        files |-> [q \in {q \in DOMAIN f.files : ~Under(q)} |-> f.files[q]]]

\* how a call that touches the filesystem ends
Outcome(r, f) ==
    [raised |-> r.raised, error |-> r.error, value |-> r.value, fs |-> f]

(***************************************************************************)
(* core/utils.py and transformer/utils.py                                  *)
(***************************************************************************)
\* Path(source_path).stem
Stem(p) == CASE p[Len(p)] = "MyTool.py" -> "MyTool"
             [] OTHER -> p[Len(p)]

to_snake_case(text) ==
    CASE text = "MyTool" -> "my_tool"
      [] OTHER -> text

derive_package_name(source_path) == to_snake_case(Stem(source_path))

derive_output_dir(source_path, package_name) ==
    LET source_dir == Parent(source_path)
        pkg_name == IF package_name # None THEN package_name
                    ELSE derive_package_name(source_path)
    IN Append(source_dir, pkg_name)

\* the pair (output path, package name)
resolve_output_path(source_path, output_dir, package_name) ==
    LET resolved_package == IF package_name # None THEN package_name
                            ELSE derive_package_name(source_path)
        output_path == IF output_dir # None THEN Path(output_dir)
                       ELSE derive_output_dir(source_path, resolved_package)
    IN [output_path |-> output_path, package_name |-> resolved_package]

(***************************************************************************)
(* transformer/code_generator.py.  The text a template renders to is kept  *)
(* as the template's name with the arguments of format().                  *)
(***************************************************************************)
\* dict.get(key, default)
Get(d, key, default) == IF key \in DOMAIN d THEN d[key] ELSE default

\* os.path.basename(text)
Basename(text) == Path(text)[Len(Path(text))]

\* the emoji the scan of DEFAULT_MODULE_EMOJIS ends with: an entry of the
\* table that the module name and the purpose determine
ModuleEmoji(module_name, purpose) ==
    [table |-> "DEFAULT_MODULE_EMOJIS", module_name |-> module_name,
     purpose |-> purpose]

\* MODULE_DOCSTRING_TEMPLATE.format(...)
RenderModuleDocstring(module_name, module_purpose, emoji, module_description) ==
    [template |-> "MODULE_DOCSTRING_TEMPLATE", module_name |-> module_name,
     module_purpose |-> module_purpose, emoji |-> emoji,
     module_description |-> module_description]

\* a text that no template rendered
PlainText(text) == [template |-> None, text |-> text]

\* bool(module.get('functions') or module.get('classes'))
HasSignatures(module) ==
    Get(module, "functions", <<>>) # <<>> \/ Get(module, "classes", <<>>) # <<>>

\* PACKAGE_INIT_TEMPLATE.format(...); imports holds the exporting modules
_generate_package_init(analysis_results, package_name) ==
    LET source_file == analysis_results.file_info.path
        modules_ == analysis_results.modules
        exports == SelectSeq([i \in DOMAIN modules_ |->
                                 IF HasSignatures(modules_[i])
                                 THEN "from ." \o modules_[i].name \o " import *"
                                 ELSE None],
                             LAMBDA e : e # None)
    IN [template |-> "PACKAGE_INIT_TEMPLATE", package_name |-> package_name,
        package_description |-> "Modular version of " \o Basename(source_file),
        original_source_comment |-> "Generated from " \o Basename(source_file),
        imports |-> exports]

\* README_TEMPLATE.format(...)
_generate_readme(analysis_results, package_name) ==
    LET source_file == analysis_results.file_info.path
        modules_ == analysis_results.modules
        exporting == SelectSeq(modules_, HasSignatures)
    IN [template |-> "README_TEMPLATE", package_name |-> package_name,
        package_description |-> "Modular version of " \o Basename(source_file),
        module_list |-> [i \in DOMAIN modules_ |->
                            [name |-> modules_[i].name,
                             purpose |-> Get(modules_[i], "purpose",
                                             "Unknown purpose")]],
        package_import_name |-> package_name,
        example_import |-> IF exporting # <<>> THEN exporting[1].name
                           ELSE IF modules_ # <<>> THEN modules_[1].name
                           ELSE "module",
        source_file |-> Basename(source_file)]

\* the line of the first statement of the content, 0 if it has none
FirstStatementLine(content) ==
    IF \E i \in DOMAIN content : IsCode(content[i])
    THEN CHOOSE i \in DOMAIN content :
             IsCode(content[i]) /\ \A j \in 1..(i - 1) : ~IsCode(content[j])
    ELSE 0

\* tree.body[0].end_lineno of a string statement that starts at line first
StringEnd(content, first) ==
    IF content[first] = TripleQuoteLine
    THEN CHOOSE j \in (first + 1)..Len(content) :
             /\ content[j] = TripleQuoteLine
             /\ \A k \in (first + 1)..(j - 1) : content[k] # TripleQuoteLine
    ELSE first

\* content is the sequence of the lines of the text
_remove_existing_docstring(content) ==
    IF ~Parses(content) THEN content
    ELSE LET first == FirstStatementLine(content) IN
         IF first # 0 /\ content[first] \in {DocLine, EmptyDocLine, SpaceDocLine,
                                           TripleQuoteLine}
         THEN SubSeq(content, StringEnd(content, first) + 1, Len(content))
         ELSE content

\* the pair (file content, file path); the file content is the docstring,
\* an empty line, and the content
_generate_module_file(module, package_name, output_path) ==
    LET module_name == module.name
        module_path == Append(output_path, module_name \o ".py")
        purpose == Get(module, "purpose", "Module")
        emoji == ModuleEmoji(module_name, purpose)
        description == "Functionality extracted from " \o package_name
        docstring ==
            IF "docstring" \in DOMAIN module
            THEN PlainText(module.docstring)
            ELSE RenderModuleDocstring(Title(UnderscoresToSpaces(module_name)),
                                       purpose, emoji, description)
        content == _remove_existing_docstring(module.content)
    IN [content |-> [docstring |-> docstring, content |-> content],
        path |-> module_path]

RECURSIVE ModuleMapLoop(_, _, _)
\* module_map[module['name']] = str(module_path.relative_to(output_path))
ModuleMapLoop(ms, i, module_map) ==
    IF i > Len(ms) THEN module_map
    ELSE ModuleMapLoop(ms, i + 1, (ms[i].name :> ms[i].name \o ".py") @@ module_map)

\* the dictionary generate_package_structure returns; it also creates the
\* output directory (see transform_code)
generate_package_structure(analysis_results, output_path, package_name) ==
    LET modules_ == analysis_results.modules
        module_files == [i \in DOMAIN modules_ |->
                            _generate_module_file(modules_[i], package_name,
                                                  output_path)]
    IN [output_path |-> PathStr(output_path),
        files |-> <<[path |-> PathStr(Append(output_path, "__init__.py")),
                     content |-> _generate_package_init(analysis_results,
                                                        package_name)],
                    [path |-> PathStr(Append(output_path, "README.md")),
                     content |-> _generate_readme(analysis_results,
                                                  package_name)]>>
                  \o [i \in DOMAIN modules_ |->
                         [path |-> PathStr(module_files[i].path),
                          content |-> module_files[i].content]],
        package_name |-> package_name,
        module_map |-> ModuleMapLoop(modules_, 1, [n \in {} |-> ""])]

(***************************************************************************)
(* transformer/__init__.py                                                 *)
(***************************************************************************)
\* f is the filesystem before the call; the outcome carries the one after
transform_code(analysis_results, output_dir, package_name, f) ==
    IF DOMAIN analysis_results = {} \/ "modules" \notin DOMAIN analysis_results
    THEN Outcome(Raised("ValueError"), f)
    ELSE IF "file_info" \notin DOMAIN analysis_results
    THEN Outcome(Raised("KeyError"), f)
    ELSE LET resolved == resolve_output_path(Path(analysis_results.file_info.path),
                                             output_dir, package_name)
         IN Outcome(Returned(generate_package_structure(
                                 analysis_results, resolved.output_path,
                                 resolved.package_name)),
                    Mkdir(f, resolved.output_path))

(***************************************************************************)
(* transformer/filesystem.py                                               *)
(***************************************************************************)
RECURSIVE GenerateLoop(_, _, _, _, _)
\* for file_info in files
GenerateLoop(files, i, dry_run, generated_paths, f) ==
    IF i > Len(files) THEN Outcome(Returned(generated_paths), f)
    ELSE LET file_path == Path(files[i].path) IN
         IF ~dry_run
         THEN GenerateLoop(files, i + 1, dry_run,
                           Append(generated_paths, PathStr(file_path)),
                           WriteFile(Mkdir(f, Parent(file_path)), file_path,
                                     files[i].content))
         ELSE GenerateLoop(files, i + 1, dry_run,
                           Append(generated_paths,
                                  "[DRY RUN] Would create: " \o PathStr(file_path)),
                           f)

\* generate_files that writes whatever dry_run says
GenerateFilesAlwaysWriting(transformation_result, dry_run, f) ==
    GenerateLoop(transformation_result.files, 1, FALSE, <<>>,
                 Mkdir(f, Path(transformation_result.output_path)))

generate_files(transformation_result, dry_run, f) ==
    LET output_path == Path(transformation_result.output_path)
    IN GenerateLoop(transformation_result.files, 1, dry_run, <<>>,
                    IF ~dry_run THEN Mkdir(f, output_path) ELSE f)

\* the default of the keep_patterns parameter
DEFAULT_KEEP_PATTERNS == <<"__init__.py", "README.md">>

\* item.match(pattern), for a pattern that is a plain file name
PathMatch(item, pattern) == item[Len(item)] = pattern

\* output_path.glob("*"): the entries directly in the directory
Glob(f, output_path) ==
    {p \in f.dirs \cup DOMAIN f.files : Len(p) > 0 /\ Parent(p) = output_path}

\* The value is the set of the entries of the returned list, whose order is
\* that of the directory listing.
clean_output_directory(output_dir, keep_patterns, dry_run, f) ==
    LET output_path == Path(output_dir)
        removed == {item \in Glob(f, output_path) :
                       \A k \in DOMAIN keep_patterns :
                           ~PathMatch(item, keep_patterns[k])}
        Report(item) ==
            IF ~dry_run
            THEN IF item \in DOMAIN f.files THEN PathStr(item)
                 ELSE PathStr(item) \o "/ (directory)"
            ELSE IF item \in DOMAIN f.files
                 THEN "[DRY RUN] Would remove: " \o PathStr(item)
                 ELSE "[DRY RUN] Would remove directory: " \o PathStr(item) \o "/"
        RECURSIVE RemoveAll(_, _)
        RemoveAll(g, items) ==
            IF items = {} THEN g
            ELSE LET item == CHOOSE x \in items : TRUE
                 IN RemoveAll(Remove(g, item), items \ {item})
    IN IF ~Exists(f, output_path) THEN Outcome(Returned({}), f)
       ELSE Outcome(Returned({Report(item) : item \in removed}),
                    IF dry_run THEN f ELSE RemoveAll(f, removed))

(***************************************************************************)
(* Inputs of the analysis run: sources made of at most MaxBlocks blocks.   *)
(***************************************************************************)
Filler == [i \in 1..(DEFAULT_PROXIMITY_THRESHOLD - 1) |-> CodeLine]

Blocks ==
    {<<BlankLine>>, <<CodeLine>>, Filler, <<DividerLine>>,
     <<IndentedDividerLine>>, <<OpenerLine>>, <<IndentedLine>>,
     <<HeaderLine>>, <<DefLine, ReturnLine>>}

RECURSIVE SourcesOf(_)
SourcesOf(n) ==
    IF n = 1 THEN Blocks
    ELSE {s \o b : s \in SourcesOf(n - 1), b \in Blocks}

Sources == UNION {SourcesOf(n) : n \in 1..MaxBlocks}

(***************************************************************************)
(* CodeAnalyzer.analyze                                                    *)
(***************************************************************************)
Init ==
    /\ source \in Sources
    /\ pc = "start"
    /\ error = "none"
    /\ modules = <<>>
    /\ dependencies = EmptyGraph
    /\ boundaries = <<>>
    /\ proximity_threshold = DEFAULT_PROXIMITY_THRESHOLD
    /\ grouped = <<>>
    /\ IoInit /\ symbol_table = <<>>

\* analyze_imports parses the whole source
AnalyzeImports ==
    /\ pc = "start"
    /\ LET r == analyze_imports(source) IN
       IF r.raised
       THEN pc' = "failed" /\ error' = r.error /\ symbol_table' = symbol_table
       ELSE pc' = "imports_analyzed" /\ error' = error
            /\ symbol_table' = r.value
    /\ UNCHANGED <<frame, source, modules, dependencies, boundaries,
                   proximity_threshold, grouped>>
    /\ UNCHANGED io_vars

DetectModuleBoundaries ==
    /\ pc = "imports_analyzed"
    /\ LET r == detect_module_boundaries(source) IN
       IF r.raised
       THEN pc' = "failed" /\ error' = r.error /\ modules' = modules
       ELSE pc' = "detected" /\ error' = error /\ modules' = r.value
    /\ UNCHANGED <<frame, source, dependencies, boundaries,
                   proximity_threshold, grouped>>
    /\ UNCHANGED <<symbol_table, io_vars>>

\* a graph stage that records in every module the names it depends on
BuildDependencyGraphAnnotating ==
    /\ pc = "detected"
    /\ LET r == build_dependency_graph(modules) IN
       IF r.raised
       THEN pc' = "failed" /\ error' = r.error /\ dependencies' = dependencies
            /\ modules' = modules
       ELSE /\ pc' = "graphed" /\ error' = error /\ dependencies' = r.value
            /\ modules' = [i \in DOMAIN modules |->
                   [depends_on |-> {e[2] : e \in {d \in r.value.edges :
                                                     d[1] = modules[i].name}}]
                       @@ modules[i]]
    /\ UNCHANGED <<frame, source, boundaries, proximity_threshold, grouped>>
    /\ UNCHANGED <<symbol_table, io_vars>>

BuildDependencyGraph ==
    /\ pc = "detected"
    /\ LET r == build_dependency_graph(modules) IN
       IF r.raised
       THEN pc' = "failed" /\ error' = r.error /\ dependencies' = dependencies
       ELSE pc' = "graphed" /\ error' = error /\ dependencies' = r.value
    /\ UNCHANGED <<frame, source, modules, boundaries,
                   proximity_threshold, grouped>>
    /\ UNCHANGED <<symbol_table, io_vars>>

\* the last stage; analyze then returns the assembled result
ExtractSemanticPurpose ==
    /\ pc = "graphed"
    /\ LET r == extract_semantic_purpose(modules) IN
       IF r.raised
       THEN pc' = "failed" /\ error' = r.error /\ modules' = modules
       ELSE pc' = "done" /\ error' = error /\ modules' = r.value
    /\ UNCHANGED <<frame, source, dependencies, boundaries,
                   proximity_threshold, grouped>>
    /\ UNCHANGED <<symbol_table, io_vars>>

Next ==
    \/ AnalyzeImports
    \/ DetectModuleBoundaries
    \/ BuildDependencyGraph
    \/ ExtractSemanticPurpose

Spec == Init /\ [][Next]_vars

(***************************************************************************)
(* build_dependency_graph called on a list of module dictionaries          *)
(***************************************************************************)
MaxModules == 3

GraphNames == {"a", "b", "c"}
GraphContents ==
    {<<CallLine>>, <<DefLine, ReturnLine>>, <<CodeLine>>, <<AnnAssignLine>>,
     <<AttrAssignLine>>, <<AttrCallLine>>, <<IndentedLine>>,
     <<CodeLine, AttrCallLine>>}
GraphModules == [name : GraphNames, content : GraphContents]

RECURSIVE ListsOf(_, _)
\* the lists of exactly n elements of S
ListsOf(S, n) ==
    IF n = 0 THEN {<<>>} ELSE {Append(l, x) : l \in ListsOf(S, n - 1), x \in S}

InitGraph ==
    /\ modules \in UNION {ListsOf(GraphModules, n) : n \in 0..MaxModules}
    /\ pc = "call"
    /\ error = "none"
    /\ source = <<>>
    /\ dependencies = EmptyGraph
    /\ boundaries = <<>>
    /\ proximity_threshold = DEFAULT_PROXIMITY_THRESHOLD
    /\ grouped = <<>>
    /\ IoInit /\ symbol_table = <<>>

CallBuildDependencyGraph ==
    /\ pc = "call"
    /\ LET r == build_dependency_graph(modules) IN
       IF r.raised
       THEN pc' = "raised" /\ error' = r.error /\ dependencies' = dependencies
       ELSE pc' = "returned" /\ error' = error /\ dependencies' = r.value
    /\ UNCHANGED <<frame, source, modules, boundaries,
                   proximity_threshold, grouped>>
    /\ UNCHANGED <<symbol_table, io_vars>>

NextGraph == CallBuildDependencyGraph

SpecGraph == InitGraph /\ [][NextGraph]_vars

(***************************************************************************)
(* extract_semantic_purpose called on a list of module dictionaries        *)
(***************************************************************************)
MaxParts == 3

PurposeNames == {"module_0", "helper", "data_model", "tools_manager"}
PurposeParts ==
    {<<DocLine>>, <<EmptyDocLine>>, <<SpaceDocLine>>, <<TripleQuoteLine>>,
     <<DocTextLine>>, <<CommentLine>>, <<CodeLine>>, <<BlankLine>>,
     <<DefLine, ReturnLine, DefLine, ReturnLine>>, <<ClassLine, PassLine>>,
     <<InitLine, PassLine>>}

RECURSIVE ContentsOf(_)
ContentsOf(n) ==
    IF n = 1 THEN PurposeParts
    ELSE {c \o part : c \in ContentsOf(n - 1), part \in PurposeParts}

PurposeContents == UNION {ContentsOf(n) : n \in 1..MaxParts}

PurposeModule(name, content) ==
    [name |-> name, start_line |-> 0, end_line |-> Len(content) - 1,
     content |-> content]

\* a second module of the list
TrailingModule == PurposeModule("module_1", <<CodeLine>>)

InitPurpose ==
    /\ \E name \in PurposeNames, content \in PurposeContents :
          modules \in {<<PurposeModule(name, content)>>,
                       <<PurposeModule(name, content), TrailingModule>>}
    /\ pc = "call"
    /\ error = "none"
    /\ source = <<>>
    /\ dependencies = EmptyGraph
    /\ boundaries = <<>>
    /\ proximity_threshold = DEFAULT_PROXIMITY_THRESHOLD
    /\ grouped = <<>>
    /\ IoInit /\ symbol_table = <<>>

CallExtractSemanticPurpose ==
    /\ pc = "call"
    /\ LET r == extract_semantic_purpose(modules) IN
       IF r.raised
       THEN pc' = "raised" /\ error' = r.error /\ modules' = modules
       ELSE pc' = "returned" /\ error' = error /\ modules' = r.value
    /\ UNCHANGED <<frame, source, dependencies, boundaries,
                   proximity_threshold, grouped>>
    /\ UNCHANGED <<symbol_table, io_vars>>

NextPurpose == CallExtractSemanticPurpose

SpecPurpose == InitPurpose /\ [][NextPurpose]_vars

(***************************************************************************)
(* _group_related_boundaries called on a boundary list and a threshold     *)
(***************************************************************************)
MaxBoundary == 22       \* largest boundary index
MaxBoundaries == 4      \* longest boundary list

Thresholds == {1, 2, 3, DEFAULT_PROXIMITY_THRESHOLD}

\* the ascending duplicate-free lists
BoundaryLists ==
    {SortedSeq(S) : S \in {S \in SUBSET (0..MaxBoundary) :
                              Cardinality(S) <= MaxBoundaries}}

InitGroup ==
    /\ boundaries \in BoundaryLists
    /\ proximity_threshold \in Thresholds
    /\ grouped = <<>>
    /\ IoInit /\ symbol_table = <<>>
    /\ pc = "call"
    /\ error = "none"
    /\ source = <<>>
    /\ modules = <<>>
    /\ dependencies = EmptyGraph

CallGroupRelatedBoundaries ==
    /\ pc = "call"
    /\ grouped' = _group_related_boundaries(boundaries, proximity_threshold)
    /\ pc' = "returned"
    /\ UNCHANGED <<frame, source, error, modules, dependencies, boundaries,
                   proximity_threshold>>
    /\ UNCHANGED <<symbol_table, io_vars>>

NextGroup == CallGroupRelatedBoundaries

SpecGroup == InitGroup /\ [][NextGroup]_vars

(***************************************************************************)
(* _extract_module_name called on a content and a default name             *)
(***************************************************************************)
MaxNameLines == 3       \* a content has at most this many lines

NameLines ==
    {ClassLine, LowerClassLine, HeaderLine, SpacedHeaderLine, DefLine,
     CamelDefLine, CapitalDefLine, CodeLine}

NameContents == UNION {[1..n -> NameLines] : n \in 0..MaxNameLines}

InitName ==
    /\ frame = <<>>
    /\ pc = "call"
    /\ error = "none"
    /\ source = <<>>
    /\ modules = <<>>
    /\ dependencies = EmptyGraph
    /\ boundaries = <<>>
    /\ proximity_threshold = DEFAULT_PROXIMITY_THRESHOLD
    /\ grouped = <<>>
    /\ symbol_table = <<>>
    /\ args \in [content : NameContents,
                 default : {ModuleDefaultName(0), ModuleDefaultName(1)}]
    /\ ret = <<>>
    /\ fs = EmptyFs
    /\ options = <<>>
    /\ steps = <<>>
    /\ transformation = <<>>

CallExtractModuleName ==
    /\ pc = "call"
    /\ pc' = "returned"
    /\ ret' = _extract_module_name(args.content, args.default)
    /\ UNCHANGED <<frame, source, error, modules, dependencies, boundaries,
                   proximity_threshold, grouped, symbol_table,
                   args, fs, options, steps, transformation>>

NextName == CallExtractModuleName

SpecName == InitName /\ [][NextName]_vars

(***************************************************************************)
(* analyze_imports called on a source text                                 *)
(***************************************************************************)
MaxImportBlocks == 3    \* a source has at most this many blocks

ImportBlocks ==
    {<<ImportLine>>, <<ImportAsLine>>, <<ImportTwoLine>>, <<FromImportLine>>,
     <<FromPlainLine>>, <<DefLine, NestedImportLine>>,
     <<OpenerLine, NestedFromLine>>, <<CodeLine>>, <<OpenerLine>>}

RECURSIVE ImportSourcesOf(_)
ImportSourcesOf(n) ==
    IF n = 0 THEN {<<>>}
    ELSE {b \o t : b \in ImportBlocks, t \in ImportSourcesOf(n - 1)}

ImportSources == UNION {ImportSourcesOf(n) : n \in 0..MaxImportBlocks}

InitImports ==
    /\ pc = "call"
    /\ error = "none"
    /\ source \in ImportSources
    /\ modules = <<>>
    /\ dependencies = EmptyGraph
    /\ boundaries = <<>>
    /\ proximity_threshold = DEFAULT_PROXIMITY_THRESHOLD
    /\ grouped = <<>>
    /\ symbol_table = <<>>
    /\ IoInit

CallAnalyzeImports ==
    /\ pc = "call"
    /\ LET r == analyze_imports(source) IN
       IF r.raised
       THEN pc' = "raised" /\ error' = r.error /\ symbol_table' = symbol_table
       ELSE pc' = "returned" /\ error' = error /\ symbol_table' = r.value
    /\ UNCHANGED <<frame, source, modules, dependencies, boundaries,
                   proximity_threshold, grouped>>
    /\ UNCHANGED io_vars

NextImports == CallAnalyzeImports

SpecImports == InitImports /\ [][NextImports]_vars

(***************************************************************************)
(* transform_code called on an analysis result                             *)
(***************************************************************************)
MaxFileModules == 2     \* an analysis result has at most this many modules

\* the file the runs analyse
SourcePath == <<"src", "MyTool.py">>

\* the file_info dictionary of CodeAnalyzer.analyze, without its size
FileInfo(source_path) ==
    [path |-> PathStr(source_path), name |-> source_path[Len(source_path)],
     stem |-> Stem(source_path)]

\* the filesystem that holds the source file with the given content
SourceFs(lines) ==
    [dirs |-> {Parent(SourcePath)}, files |-> (SourcePath :> lines)]

TransformNames == {"helper", "widgets"}
TransformContents ==
    {<<CodeLine>>, <<DocLine, CodeLine>>, <<DividerLine, DocLine, CodeLine>>,
     <<TripleQuoteLine, DocTextLine, TripleQuoteLine, CodeLine>>,
     <<CodeLine, DocLine>>, <<DefLine, ReturnLine>>}

\* modules as the enrichment stage leaves them, and modules as the
\* detection stage leaves them
TransformModules ==
    {EnrichedModule(PurposeModule(name, content)) :
        name \in TransformNames, content \in TransformContents}
    \cup {PurposeModule(name, content) :
            name \in TransformNames,
            content \in {<<OpenerLine>>, <<DocLine, CodeLine>>}}

TransformModuleLists ==
    UNION {[1..n -> TransformModules] : n \in 0..MaxFileModules}

\* a dictionary with no key
EmptyDict == [k \in {} |-> k]

AnalysisResults ==
    {[modules |-> ms, dependencies |-> EmptyGraph, symbols |-> EmptyDict,
      file_info |-> FileInfo(SourcePath)] : ms \in TransformModuleLists}
    \cup {[modules |-> ms, dependencies |-> EmptyGraph, symbols |-> EmptyDict] :
            ms \in TransformModuleLists}
    \cup {[dependencies |-> EmptyGraph, symbols |-> EmptyDict,
           file_info |-> FileInfo(SourcePath)],
          EmptyDict}

InitTransform ==
    /\ frame = <<>>
    /\ pc = "call"
    /\ error = "none"
    /\ source = <<CodeLine>>
    /\ modules = <<>>
    /\ dependencies = EmptyGraph
    /\ boundaries = <<>>
    /\ proximity_threshold = DEFAULT_PROXIMITY_THRESHOLD
    /\ grouped = <<>>
    /\ symbol_table = <<>>
    /\ \E analysis_results \in AnalysisResults,
          output_dir \in {None, "build/out"}, package_name \in {None, "mypkg"} :
          args = [analysis_results |-> analysis_results,
                  output_dir |-> output_dir, package_name |-> package_name]
    /\ ret = <<>>
    /\ fs = SourceFs(source)
    /\ options = <<>>
    /\ steps = <<>>
    /\ transformation = <<>>

CallTransformCode ==
    /\ pc = "call"
    /\ LET r == transform_code(args.analysis_results, args.output_dir,
                               args.package_name, fs) IN
       /\ fs' = r.fs
       /\ IF r.raised
          THEN pc' = "raised" /\ error' = r.error
               /\ transformation' = transformation
          ELSE pc' = "returned" /\ error' = error /\ transformation' = r.value
    /\ UNCHANGED <<frame, source, modules, dependencies, boundaries,
                   proximity_threshold, grouped, symbol_table,
                   args, ret, options, steps>>

NextTransform == CallTransformCode

SpecTransform == InitTransform /\ [][NextTransform]_vars

(***************************************************************************)
(* generate_files called on a transformation result                        *)
(***************************************************************************)
MaxFiles == 3           \* a transformation result has at most this many files

FilesOutputPaths == {<<"out">>, <<"build", "out">>}
FilesNames == {"__init__.py", "README.md", "helper.py", "widgets.py"}
FilesContents == {<<CodeLine>>, <<DocLine>>}

\* the transformation results whose files lie in their output directory
TransformationResults ==
    UNION {{[output_path |-> PathStr(output_path), files |-> files,
             package_name |-> "mypkg", module_map |-> EmptyDict] :
               files \in UNION {[1..n -> [path : {PathStr(Append(output_path, name)) :
                                                     name \in FilesNames},
                                          content : FilesContents]] :
                                   n \in 0..MaxFiles}} :
           output_path \in FilesOutputPaths}

\* before the call: only the source file, or an output directory that
\* already holds a module file
FilesFilesystems ==
    {SourceFs(<<CodeLine>>),
     WriteFile(Mkdir(SourceFs(<<CodeLine>>), <<"out">>),
               <<"out", "helper.py">>, <<IndentedLine>>)}

InitFiles ==
    /\ frame = <<>>
    /\ pc = "call"
    /\ error = "none"
    /\ source = <<CodeLine>>
    /\ modules = <<>>
    /\ dependencies = EmptyGraph
    /\ boundaries = <<>>
    /\ proximity_threshold = DEFAULT_PROXIMITY_THRESHOLD
    /\ grouped = <<>>
    /\ symbol_table = <<>>
    /\ args \in [transformation_result : TransformationResults,
                 dry_run : BOOLEAN]
    /\ ret = <<>>
    /\ fs \in FilesFilesystems
    /\ options = <<>>
    /\ steps = <<>>
    /\ transformation = <<>>

CallGenerateFiles ==
    /\ pc = "call"
    /\ LET r == generate_files(args.transformation_result, args.dry_run, fs) IN
       /\ pc' = "returned"
       /\ ret' = r.value
       /\ fs' = r.fs
    /\ UNCHANGED <<frame, source, error, modules, dependencies, boundaries,
                   proximity_threshold, grouped, symbol_table,
                   args, options, steps, transformation>>

NextFiles == CallGenerateFiles

SpecFiles == InitFiles /\ [][NextFiles]_vars

(***************************************************************************)
(* cli.py: a run of execute_refactoring(options, clean).  The analysed     *)
(* file is SourcePath; source is the text the run may find there.          *)
(***************************************************************************)
\* CodeAnalyzer.analyze
analyze(lines, source_path) ==
    LET symbols == analyze_imports(lines)
        detected == detect_module_boundaries(lines)
        graph == build_dependency_graph(detected.value)
        enriched == extract_semantic_purpose(detected.value)
    IN IF symbols.raised THEN Raised(symbols.error)
       ELSE IF detected.raised THEN Raised(detected.error)
       ELSE IF graph.raised THEN Raised(graph.error)
       ELSE IF enriched.raised THEN Raised(enriched.error)
       ELSE Returned([modules |-> enriched.value,
                      dependencies |-> graph.value,
                      symbols |-> symbols.value,
                      file_info |-> FileInfo(source_path)])

\* CodeAnalyzer(source_path).analyze()
analyze_code(source_path, f) ==
    IF ~Exists(f, source_path) THEN Raised("FileNotFoundError")
    ELSE analyze(f.files[source_path], source_path)

\* two modules, both named after the same header label
TwoWidgets ==
    <<DividerLine, HeaderLine>> \o Filler \o <<DividerLine, HeaderLine, CodeLine>>
\* two modules with their fallback names
TwoModules == <<DividerLine>> \o Filler \o <<DividerLine, CodeLine>>

CliSources ==
    {<<CodeLine>>, <<DividerLine, DocLine, CodeLine>>, <<ImportLine, CodeLine>>,
     <<DefLine, ReturnLine>>, <<OpenerLine>>, TwoWidgets, TwoModules}

\* the directories a run can choose as its output directory
CliOutputPaths == {<<"out">>, <<"src", "my_tool">>, <<"src", "mypkg">>}

RECURSIVE WithOldEntries(_, _)
\* the filesystem with, in each of the directories, files of an earlier
\* run, a stray file and a subdirectory
WithOldEntries(f, paths) ==
    IF paths = {} THEN f
    ELSE LET d == CHOOSE x \in paths : TRUE
             g == WriteFile(WriteFile(WriteFile(
                      Mkdir(f, Append(d, "cache")),
                      Append(d, "__init__.py"), <<CommentLine>>),
                      Append(d, "old.py"), <<IndentedLine>>),
                      Append(Append(d, "cache"), "old.py"), <<IndentedLine>>)
         IN WithOldEntries(g, paths \ {d})

\* before the run: the source file alone, no source file, or the source
\* file and populated output directories
CliFilesystems(lines) ==
    {SourceFs(lines),
     [dirs |-> {Parent(SourcePath)}, files |-> [p \in {} |-> <<>>]],
     WithOldEntries(SourceFs(lines), CliOutputPaths)}

InitCli ==
    /\ frame = <<>>
    /\ pc = "check"
    /\ error = "none"
    /\ source \in CliSources
    /\ modules = <<>>
    /\ dependencies = EmptyGraph
    /\ boundaries = <<>>
    /\ proximity_threshold = DEFAULT_PROXIMITY_THRESHOLD
    /\ grouped = <<>>
    /\ symbol_table = <<>>
    /\ args \in [clean : BOOLEAN]
    /\ ret = <<>>
    /\ fs \in CliFilesystems(source)
    /\ options \in [source_path : {PathStr(SourcePath)},
                    output_dir : {None, "out"},
                    package_name : {None, "mypkg"},
                    analyze_only : BOOLEAN, dry_run : BOOLEAN, verbose : BOOLEAN]
    /\ steps = <<>>
    /\ transformation = <<>>

\* the analysis result the run holds once analyze_code has returned
AnalysisResult ==
    [modules |-> modules, dependencies |-> dependencies,
     symbols |-> symbol_table, file_info |-> FileInfo(Path(options.source_path))]

\* the run without the test of the source path
CheckSourcePathSkipped ==
    /\ pc = "check"
    /\ pc' = "analyze"
    /\ UNCHANGED <<frame, source, error, modules, dependencies, boundaries,
                   proximity_threshold, grouped, symbol_table, io_vars>>

\* lines 143-145
CheckSourcePath ==
    /\ pc = "check"
    /\ IF ~Exists(fs, Path(options.source_path))
       THEN pc' = "raised" /\ error' = "FileNotFoundError"
       ELSE pc' = "analyze" /\ error' = error
    /\ UNCHANGED <<frame, source, modules, dependencies, boundaries,
                   proximity_threshold, grouped, symbol_table, io_vars>>

\* line 148
AnalyzeCode ==
    /\ pc = "analyze"
    /\ steps' = Append(steps, "analyze_code")
    /\ LET r == analyze_code(Path(options.source_path), fs) IN
       IF r.raised
       THEN /\ pc' = "raised" /\ error' = r.error
            /\ UNCHANGED <<modules, dependencies, symbol_table>>
       ELSE /\ pc' = "report" /\ error' = error
            /\ modules' = r.value.modules
            /\ dependencies' = r.value.dependencies
            /\ symbol_table' = r.value.symbols
    /\ UNCHANGED <<frame, source, boundaries, proximity_threshold, grouped,
                   args, ret, fs, options, transformation>>

\* the run that goes on to the transformation whatever analyze_only says
ReportAnalysisNoReturn ==
    /\ pc = "report"
    /\ steps' = IF options.analyze_only \/ options.dry_run \/ options.verbose
                THEN Append(steps, "print_analysis_report") ELSE steps
    /\ pc' = "transform"
    /\ UNCHANGED <<frame, source, error, modules, dependencies, boundaries,
                   proximity_threshold, grouped, symbol_table,
                   args, ret, fs, options, transformation>>

\* lines 150-154
ReportAnalysis ==
    /\ pc = "report"
    /\ steps' = IF options.analyze_only \/ options.dry_run \/ options.verbose
                THEN Append(steps, "print_analysis_report") ELSE steps
    /\ IF options.analyze_only
       THEN pc' = "returned"
            /\ ret' = [success |-> TRUE, analysis |-> AnalysisResult]
       ELSE pc' = "transform" /\ ret' = ret
    /\ UNCHANGED <<frame, source, error, modules, dependencies, boundaries,
                   proximity_threshold, grouped, symbol_table,
                   args, fs, options, transformation>>

\* lines 157-161
TransformCode ==
    /\ pc = "transform"
    /\ steps' = Append(steps, "transform_code")
    /\ LET r == transform_code(AnalysisResult, options.output_dir,
                               options.package_name, fs) IN
       /\ fs' = r.fs
       /\ IF r.raised
          THEN pc' = "raised" /\ error' = r.error
               /\ transformation' = transformation
          ELSE pc' = "clean" /\ error' = error /\ transformation' = r.value
    /\ UNCHANGED <<frame, source, modules, dependencies, boundaries,
                   proximity_threshold, grouped, symbol_table,
                   args, ret, options>>

\* lines 163-169
CleanOutput ==
    /\ pc = "clean"
    /\ pc' = "generate"
    /\ IF args.clean
       THEN /\ steps' = Append(steps, "clean_output_directory")
            /\ fs' = clean_output_directory(transformation.output_path,
                                            DEFAULT_KEEP_PATTERNS,
                                            options.dry_run, fs).fs
       ELSE UNCHANGED <<steps, fs>>
    /\ UNCHANGED <<frame, source, error, modules, dependencies, boundaries,
                   proximity_threshold, grouped, symbol_table,
                   args, ret, options, transformation>>

\* lines 172-189
GenerateAndReturn ==
    /\ pc = "generate"
    /\ pc' = "returned"
    /\ IF ~options.dry_run
       THEN /\ steps' = Append(steps, "generate_files")
            /\ fs' = generate_files(transformation, FALSE, fs).fs
       ELSE UNCHANGED <<steps, fs>>
    /\ ret' = [success |-> TRUE, analysis |-> AnalysisResult,
               transformation |-> transformation]
    /\ UNCHANGED <<frame, source, error, modules, dependencies, boundaries,
                   proximity_threshold, grouped, symbol_table,
                   args, options, transformation>>

NextCli ==
    \/ CheckSourcePath
    \/ AnalyzeCode
    \/ ReportAnalysis
    \/ TransformCode
    \/ CleanOutput
    \/ GenerateAndReturn

SpecCli == InitCli /\ [][NextCli]_vars

(***************************************************************************)
(* The analysis of a source followed by the transformation of its result,  *)
(* as execute_refactoring chains them for the file SourcePath.             *)
(***************************************************************************)
\* the sources of these runs: one block, or two blocks that a stretch of
\* code lines keeps far enough apart to give two modules
RunBlocks == Blocks \ {Filler}
RunSources == RunBlocks \cup {a \o Filler \o b : a, b \in RunBlocks}

InitRun ==
    /\ source \in RunSources
    /\ pc = "start"
    /\ error = "none"
    /\ modules = <<>>
    /\ dependencies = EmptyGraph
    /\ boundaries = <<>>
    /\ proximity_threshold = DEFAULT_PROXIMITY_THRESHOLD
    /\ grouped = <<>>
    /\ IoInit /\ symbol_table = <<>>

\* the dictionary CodeAnalyzer.analyze returns, without the size of the file
RunAnalysis ==
    [modules |-> modules, dependencies |-> dependencies,
     symbols |-> symbol_table, file_info |-> FileInfo(SourcePath)]

\* transform_code(analysis) with no output directory and no package name
TransformAnalysis ==
    /\ pc = "done"
    /\ LET r == transform_code(RunAnalysis, None, None, fs) IN
       /\ fs' = r.fs
       /\ IF r.raised
          THEN pc' = "failed" /\ error' = r.error
               /\ transformation' = transformation
          ELSE pc' = "transformed" /\ error' = error
               /\ transformation' = r.value
    /\ UNCHANGED <<frame, source, modules, dependencies, boundaries,
                   proximity_threshold, grouped, symbol_table,
                   args, ret, options, steps>>

NextRun ==
    \/ AnalyzeImports
    \/ DetectModuleBoundaries
    \/ BuildDependencyGraph
    \/ ExtractSemanticPurpose
    \/ TransformAnalysis

SpecRun == InitRun /\ [][NextRun]_vars

(***************************************************************************)
(* transformer/import_manager.py                                           *)
(*                                                                         *)
(* A dict of import lists is [keys, get]: its keys in insertion order and  *)
(* the list stored under each key.                                         *)
(***************************************************************************)
\* the module names of the calls below, in the order the graph got them
NameOrder == <<"a", "b", "c">>

\* module_imports = {}
EmptyImports == [keys |-> <<>>, get |-> [k \in {} |-> <<>>]]

\* module_imports[name] = value
SetItem(d, name, value) ==
    [keys |-> IF name \in Range(d.keys) THEN d.keys ELSE Append(d.keys, name),
     get |-> (name :> value) @@ d.get]

\* module_imports.get(name, [])
GetImports(d, name) == IF name \in DOMAIN d.get THEN d.get[name] ELSE <<>>

\* lst.remove(x): the list without the first occurrence of x
RemoveFirst(lst, x) ==
    LET i == CHOOSE i \in DOMAIN lst :
                 lst[i] = x /\ \A j \in 1..(i - 1) : lst[j] # x
    IN SubSeq(lst, 1, i - 1) \o SubSeq(lst, i + 1, Len(lst))

\* dependency_graph.successors(name) of networkx.DiGraph: NetworkXError (an
\* Exception, neither KeyError nor TypeError) for a name that is no node,
\* else the successors in the order their edges were added, which is the
\* order of NameOrder for a graph filled source by source as
\* build_dependency_graph fills it
Successors(g, name) ==
    IF name \notin g.nodes THEN Raised("NetworkXError")
    ELSE Returned(SelectSeq(NameOrder, LAMBDA v : <<name, v>> \in g.edges))

\* the adjacency matrix, lines 61-72: an import that is no key adds nothing
Matrix(module_imports) ==
    LET ks == module_imports.keys
    IN [i \in DOMAIN ks |-> [j \in DOMAIN ks |->
           IF ks[j] \in Range(module_imports.get[ks[i]]) THEN 1 ELSE 0]]

RECURSIVE dfs(_, _, _, _, _)
RECURSIVE NeighborLoop(_, _, _, _, _, _)
\* for neighbor in range(n), lines 87-95, from neighbor on
NeighborLoop(ks, matrix, node, path, neighbor, st) ==
    IF neighbor > Len(ks) THEN st
    ELSE LET cycle == Append(path, ks[neighbor])
             st1 == IF matrix[node][neighbor] # 1 THEN st
                    ELSE IF st.recursion_stack[neighbor] = 1
                         THEN IF cycle \in Range(st.cycles) THEN st
                              ELSE [st EXCEPT !.cycles = Append(@, cycle)]
                    ELSE IF st.visited[neighbor] = 0
                         THEN dfs(ks, matrix, neighbor, cycle, st)
                    ELSE st
         IN NeighborLoop(ks, matrix, node, path, neighbor + 1, st1)

\* dfs(node, path), lines 83-97
dfs(ks, matrix, node, path, st) ==
    LET entered == [st EXCEPT !.visited[node] = 1,
                              !.recursion_stack[node] = 1]
        looped == NeighborLoop(ks, matrix, node, path, 1, entered)
    IN [looped EXCEPT !.recursion_stack[node] = 0]

RECURSIVE RootLoop(_, _, _, _)
\* for i in range(n): if visited[i] == 0: dfs(i, [modules[i]]), lines 99-101
RootLoop(ks, matrix, i, st) ==
    IF i > Len(ks) THEN st
    ELSE RootLoop(ks, matrix, i + 1,
                  IF st.visited[i] = 0 THEN dfs(ks, matrix, i, <<ks[i]>>, st)
                  ELSE st)

\* the list cycles after the search, lines 61-101
DetectCycles(module_imports) ==
    LET ks == module_imports.keys
    IN RootLoop(ks, Matrix(module_imports), 1,
                [visited |-> [i \in DOMAIN ks |-> 0],
                 recursion_stack |-> [i \in DOMAIN ks |-> 0],
                 cycles |-> <<>>]).cycles

\* float('inf') and the counts compared with it
Infinity == [inf |-> TRUE, n |-> 0]
Finite(n) == [inf |-> FALSE, n |-> n]
Less(x, y) == ~x.inf /\ (y.inf \/ x.n < y.n)

RECURSIVE LinkLoop(_, _, _, _, _)
\* for i in range(len(cycle)), lines 107-116: i counts from 1 here, so the
\* next position (i + 1) % len(cycle) is (i % Len(cycle)) + 1
LinkLoop(cycle, module_imports, i, min_imports, weakest_link) ==
    IF i > Len(cycle) THEN weakest_link
    ELSE LET from_module == cycle[i]
             to_module == cycle[(i % Len(cycle)) + 1]
             count == Finite(Len(GetImports(module_imports, from_module)))
         IN IF Less(count, min_imports)
            THEN LinkLoop(cycle, module_imports, i + 1, count,
                          <<from_module, to_module>>)
            ELSE LinkLoop(cycle, module_imports, i + 1, min_imports,
                          weakest_link)

\* the weakest link of a cycle, lines 105-116: the first link whose source
\* has the smallest count
WeakestLink(cycle, module_imports) ==
    LinkLoop(cycle, module_imports, 1, Infinity, <<cycle[1], cycle[2]>>)

\* a pass that removes every occurrence of the import
BreakCycleRemovingAll(cycle, module_imports) ==
    LET weakest_link == WeakestLink(cycle, module_imports)
        lst == GetImports(module_imports, weakest_link[1])
    IN [module_imports EXCEPT
           !.get[weakest_link[1]] =
               SelectSeq(lst, LAMBDA x : x # weakest_link[2])]

\* lines 118-120: the mapping after one pass of the loop over cycles
BreakCycle(cycle, module_imports) ==
    LET weakest_link == WeakestLink(cycle, module_imports)
        lst == GetImports(module_imports, weakest_link[1])
    IN IF weakest_link[2] \in Range(lst)
       THEN [module_imports EXCEPT
                !.get[weakest_link[1]] = RemoveFirst(lst, weakest_link[2])]
       ELSE module_imports

RECURSIVE CollectLoop(_, _, _, _)
\* for module in modules, lines 29-42: the exception of successors is not
\* one the except clause names, so it leaves the function
CollectLoop(ms, i, dependency_graph, module_imports) ==
    IF i > Len(ms) THEN Returned(module_imports)
    ELSE LET module_name == ms[i].name
             dependencies_ == Successors(dependency_graph, module_name)
         IN IF dependencies_.raised THEN dependencies_
            ELSE CollectLoop(ms, i + 1, dependency_graph,
                     SetItem(module_imports, module_name,
                             dependencies_.value))

(***************************************************************************)
(* Calls of _resolve_circular_dependencies and of reorganize_imports. The  *)
(* search for cycles is one step, each pass of the loop over the cycles    *)
(* found is one step. frame holds the locals: module_imports (the dict     *)
(* that is changed in place and returned), cycles, the position k of the   *)
(* next cycle and the weakest link of the last pass.                       *)
(***************************************************************************)
MaxImports == 2         \* an import list has at most this many entries
MaxListed == 3          \* reorganize_imports gets at most this many modules

\* the sequences over S of length n, and of length at most n
SeqsOfLen(S, n) == [1..n -> S]
SeqsUpTo(S, n) == UNION {SeqsOfLen(S, k) : k \in 0..n}

\* the import mappings: keys are the first names of NameOrder, lists are
\* any names, repeated ones and names that are no key included
ImportMappings ==
    UNION {LET ks == SubSeq(NameOrder, 1, n)
           IN {[keys |-> ks, get |-> g] :
                  g \in [Range(ks) -> SeqsUpTo(Range(NameOrder), MaxImports)]}
           : n \in 0..Len(NameOrder)}

Frame(module_imports) ==
    [module_imports |-> module_imports, cycles |-> <<>>, k |-> 0,
     weakest_link |-> <<>>]

InitResolve ==
    /\ pc = "detect"
    /\ error = "none"
    /\ source = <<>>
    /\ modules = <<>>
    /\ dependencies = EmptyGraph
    /\ boundaries = <<>>
    /\ proximity_threshold = DEFAULT_PROXIMITY_THRESHOLD
    /\ grouped = <<>>
    /\ symbol_table = <<>>
    /\ ret = <<>>
    /\ fs = EmptyFs
    /\ options = <<>>
    /\ steps = <<>>
    /\ transformation = <<>>
    /\ \E m \in ImportMappings :
           /\ args = [module_imports |-> m]
           /\ frame = Frame(m)

\* lines 61-101
FindCycles ==
    /\ pc = "detect"
    /\ pc' = "break"
    /\ frame' = [frame EXCEPT !.cycles = DetectCycles(frame.module_imports),
                              !.k = 1]
    /\ UNCHANGED <<source, error, modules, dependencies, boundaries,
                   proximity_threshold, grouped, symbol_table, io_vars>>

\* one pass of for cycle in cycles, lines 104-120
BreakNextCycle ==
    /\ pc = "break"
    /\ frame.k <= Len(frame.cycles)
    /\ LET cycle == frame.cycles[frame.k]
       IN frame' = [frame EXCEPT
              !.module_imports = BreakCycle(cycle, frame.module_imports),
              !.weakest_link = WeakestLink(cycle, frame.module_imports),
              !.k = @ + 1]
    /\ UNCHANGED <<source, pc, error, modules, dependencies, boundaries,
                   proximity_threshold, grouped, symbol_table, io_vars>>

\* line 122, which line 47 of reorganize_imports hands on
ReturnImports ==
    /\ pc = "break"
    /\ frame.k > Len(frame.cycles)
    /\ pc' = "returned"
    /\ ret' = frame.module_imports
    /\ UNCHANGED <<frame, source, error, modules, dependencies, boundaries,
                   proximity_threshold, grouped, symbol_table,
                   args, fs, options, steps, transformation>>

NextResolve ==
    \/ FindCycles
    \/ BreakNextCycle
    \/ ReturnImports

SpecResolve == InitResolve /\ [][NextResolve]_vars

\* the call goes on until it returns
SpecResolveLive == SpecResolve /\ WF_vars(NextResolve)

\* the graphs on the first names of NameOrder, self edges included
ImportGraphs ==
    UNION {LET ns == Range(SubSeq(NameOrder, 1, n))
           IN {[nodes |-> ns, edges |-> es] : es \in SUBSET (ns \X ns)}
           : n \in 0..Len(NameOrder)}

\* the module lists: only the name of a module is read
ListedModules ==
    {[i \in DOMAIN names |-> [name |-> names[i]]] :
        names \in SeqsUpTo(Range(NameOrder), MaxListed)}

InitReorganize ==
    /\ pc = "call"
    /\ error = "none"
    /\ source = <<>>
    /\ modules = <<>>
    /\ dependencies = EmptyGraph
    /\ boundaries = <<>>
    /\ proximity_threshold = DEFAULT_PROXIMITY_THRESHOLD
    /\ grouped = <<>>
    /\ symbol_table = <<>>
    /\ ret = <<>>
    /\ fs = EmptyFs
    /\ options = <<>>
    /\ steps = <<>>
    /\ transformation = <<>>
    /\ frame = <<>>
    /\ \E ms \in ListedModules, g \in ImportGraphs :
           args = [modules |-> ms, dependency_graph |-> g]

\* reorganize_imports up to its call of _resolve_circular_dependencies,
\* lines 26-46
CollectImports ==
    /\ pc = "call"
    /\ LET r == CollectLoop(args.modules, 1, args.dependency_graph,
                            EmptyImports)
       IN IF r.raised
          THEN /\ pc' = "raised" /\ error' = r.error
               /\ frame' = frame
          ELSE /\ pc' = "detect" /\ error' = error
               /\ frame' = Frame(r.value)
    /\ UNCHANGED <<source, modules, dependencies, boundaries,
                   proximity_threshold, grouped, symbol_table, io_vars>>

NextReorganize ==
    \/ CollectImports
    \/ FindCycles
    \/ BreakNextCycle
    \/ ReturnImports

SpecReorganize == InitReorganize /\ [][NextReorganize]_vars

(***************************************************************************)
(* Properties                                                              *)
(***************************************************************************)
\* the run has the list returned by detect_module_boundaries
Detected == pc \in {"detected", "graphed", "done"}

Covers(m, k) == m.start_line <= k /\ k <= m.end_line

NamesDistinct(ms) ==
    \A i, j \in DOMAIN ms : i # j => ms[i].name # ms[j].name

\* C1: after build_dependency_graph on any module list the graph has no
\* edge from a module name to itself, also when two modules of the list
\* carry the same name.
C1_NoSelfEdge ==
    pc = "returned" => \A e \in dependencies.edges : e[1] # e[2]

\* C2: a source in which no line matches a divider pattern and that has no
\* qualifying definition yields exactly one module, spanning lines
\* 0 .. total_lines - 1.
C2_ZeroBoundariesOneModule ==
    (Detected /\ \A i \in DOMAIN source : ~AnyPatternMatches(source[i]))
        => /\ Len(modules) = 1
           /\ modules[1].start_line = 0
           /\ modules[1].end_line = Len(source) - 1

\* C3: the line ranges of the modules of one detection run are pairwise
\* disjoint.
C3_RangesDisjoint ==
    Detected =>
        \A i, j \in DOMAIN modules :
            i # j => \/ modules[i].end_line < modules[j].start_line
                     \/ modules[j].end_line < modules[i].start_line

\* C4: when at least one boundary is detected, every line index of the
\* source lies in the range of some returned module.
C4_EveryLineCovered ==
    (Detected /\ \E i \in DOMAIN source : AnyPatternMatches(source[i]))
        => \A k \in 0..(Len(source) - 1) :
               \E i \in DOMAIN modules : Covers(modules[i], k)

\* C5: every returned module has 0 <= start_line <= end_line < total_lines
\* and its content is the source lines start_line .. end_line.
C5_RangeAndContent ==
    Detected =>
        \A i \in DOMAIN modules :
            /\ 0 <= modules[i].start_line
            /\ modules[i].start_line <= modules[i].end_line
            /\ modules[i].end_line < Len(source)
            /\ modules[i].content =
                   [k \in 1..(modules[i].end_line - modules[i].start_line + 1) |->
                       source[modules[i].start_line + k]]

\* C5 witness: a module that is a proper slice of several lines, with
\* lines of the source before and after it
C5_Witness ==
    /\ pc = "detected"
    /\ \E i \in DOMAIN modules :
          /\ 0 < modules[i].start_line
          /\ modules[i].start_line < modules[i].end_line
          /\ modules[i].end_line < Len(source) - 1

\* C6: the names of the modules returned by one run are pairwise distinct.
C6_NamesDistinct == Detected => NamesDistinct(modules)

\* C7: after extract_semantic_purpose every module has a non-empty purpose.
C7_PurposeNonEmpty ==
    pc = "returned" => \A i \in DOMAIN modules : modules[i].purpose # ""

\* C8: when the whole source parses and some module slice does not parse
\* in isolation, the analysis run still ends with a result.
C8_FragmentFailureTolerated ==
    (/\ pc \in {"done", "failed"}
     /\ Parses(source)
     /\ \E i \in DOMAIN modules : ~Parses(modules[i].content))
        => pc = "done"

\* names referenced by, and names defined by, a module's content
ReferencedBy(m) == extract_referenced_names(AstWalk(m.content))
DefinedBy(m) == extract_defined_names(AstWalk(m.content))

\* C9: for modules with pairwise distinct names the edges are exactly the
\* pairs A -> B of different modules where a name referenced by A is
\* defined by B; for A = 'result = helper(x)' and B defining helper that
\* is A -> B alone.
C9_EdgesExactlyReferences ==
    (pc = "returned" /\ NamesDistinct(modules)) =>
        /\ \A i, j \in DOMAIN modules :
              <<modules[i].name, modules[j].name>> \in dependencies.edges
                  <=> (i # j /\ ReferencedBy(modules[i]) \cap DefinedBy(modules[j]) # {})
        /\ dependencies.edges \subseteq
              {<<modules[i].name, modules[j].name>> : i, j \in DOMAIN modules}
        /\ modules = <<[name |-> "a", content |-> <<CallLine>>],
                       [name |-> "b", content |-> <<DefLine, ReturnLine>>]>>
              => dependencies.edges = {<<"a", "b">>}

\* C9 witness: the call of helper in "a", its definition in "b"
C9_Witness ==
    /\ pc = "returned"
    /\ modules = <<[name |-> "a", content |-> <<CallLine>>],
                   [name |-> "b", content |-> <<DefLine, ReturnLine>>]>>
    /\ <<"a", "b">> \in dependencies.edges
    /\ <<"b", "a">> \notin dependencies.edges

RECURSIVE Flatten(_)
Flatten(groups) ==
    IF groups = <<>> THEN <<>> ELSE Head(groups) \o Flatten(Tail(groups))

C11_NamePriority ==
    pc = "returned" =>
        LET content == args.content
            HasClass == \E i \in DOMAIN content : ClassNameIn(content[i]) # NoMatch
            HasHeader == \E i \in DOMAIN content : HeaderLabelIn(content[i]) # NoMatch
            HasFunc == \E i \in DOMAIN content : FuncNameIn(content[i]) # NoMatch
            First(P(_)) == CHOOSE i \in DOMAIN content :
                              P(i) /\ \A j \in 1..(i - 1) : ~P(j)
            IsClassAt(i) == ClassNameIn(content[i]) # NoMatch
            IsHeaderAt(i) == HeaderLabelIn(content[i]) # NoMatch
            IsFuncAt(i) == FuncNameIn(content[i]) # NoMatch
        IN /\ HasClass => ret = Lower(ClassNameIn(content[First(IsClassAt)]))
           /\ ~HasClass /\ HasHeader =>
                 ret = SpacesToUnderscores(
                           Lower(HeaderLabelIn(content[First(IsHeaderAt)])))
           /\ ~HasClass /\ ~HasHeader /\ HasFunc =>
                 ret = FuncNameIn(content[First(IsFuncAt)])
           /\ ~HasClass /\ ~HasHeader /\ ~HasFunc => ret = args.default

\* a header label stands before the class name, and the class name is returned
C11_Witness ==
    /\ pc = "returned"
    /\ args.content = <<SpacedHeaderLine, CamelDefLine, ClassLine>>
    /\ ret = "foo"

\* the import statements of the source
ImportStatements(lines) ==
    {n \in Range(AstWalk(lines)) : n.type \in {"Import", "ImportFrom"}}

\* the lines of the import statements that bind the local name
BindingLines(lines, local) ==
    {n.lineno : n \in {st \in ImportStatements(lines) :
                          \E a \in Range(st.names) : LocalName(a) = local}}

\* C12: the table analyze_imports returns is keyed by exactly the local names
\* (alias if present, else the imported name) the import statements of the
\* source bind, and the entry of a local name bound by several import
\* statements is that of the statement on the greatest line, also when one of
\* the statements is nested in a function or a compound statement.
C12_LastImportWins ==
    pc = "returned" =>
        /\ DOMAIN symbol_table =
              {LocalName(a) : a \in UNION {Range(st.names) :
                                              st \in ImportStatements(source)}}
        /\ \A local \in DOMAIN symbol_table :
              \A l \in BindingLines(source, local) :
                  l <= symbol_table[local].lineno

\* C14: when the source path does not exist, the run ends with
\* FileNotFoundError straight from the test of the path: no step of the run
\* (analysis, report, transformation, cleaning, generation) has begun, the
\* import table, the modules and the graph are still empty, the filesystem
\* is as it was, and nothing is returned.
C14_MissingSourceFailsFirst ==
    ~Exists(fs, Path(options.source_path)) =>
        /\ pc \in {"check", "raised"}
        /\ pc = "raised" => error = "FileNotFoundError"
        /\ steps = <<>>
        /\ symbol_table = <<>> /\ modules = <<>> /\ dependencies = EmptyGraph
        /\ transformation = <<>>
        /\ ret = <<>>
        /\ fs \in CliFilesystems(source)

\* the run has ended on the missing source path
C14_Witness ==
    /\ ~Exists(fs, Path(options.source_path))
    /\ pc = "raised"
    /\ error = "FileNotFoundError"

\* the analysis result is empty or lacks one of the fields the
\* transformation reads
LacksRequiredField(analysis_results) ==
    \/ DOMAIN analysis_results = {}
    \/ "modules" \notin DOMAIN analysis_results
    \/ "file_info" \notin DOMAIN analysis_results

\* C15: when the analysis result is empty or has no modules field or no
\* file_info field, transform_code ends with ValueError, the filesystem is
\* as it was before the call (no directory was created) and no
\* transformation has been returned.
C15_InvalidResultIsValueError ==
    pc \in {"raised", "returned"} /\ LacksRequiredField(args.analysis_results) =>
        /\ pc = "raised"
        /\ error = "ValueError"
        /\ fs = SourceFs(source)
        /\ transformation = <<>>

\* C16: the transformation generate_package_structure returns has one file
\* per module besides __init__.py and README.md: 2 + number of modules
\* files, no two with the same path, and a module_map with as many entries
\* as there are modules.
C16_OneFilePerModule ==
    pc = "returned" =>
        LET files == transformation.files
            modules_ == args.analysis_results.modules
        IN /\ Len(files) = 2 + Len(modules_)
           /\ \A i, j \in DOMAIN files : i # j => files[i].path # files[j].path
           /\ Cardinality(DOMAIN transformation.module_map) = Len(modules_)

\* C17: every generated module file is a header docstring rendered from the
\* module docstring template, followed by the content of the module without
\* its leading docstring; this holds for modules that carry a detected
\* docstring and for modules that carry none.
C17_TemplateHeaderThenContent ==
    pc = "returned" =>
        LET files == transformation.files
            modules_ == args.analysis_results.modules
        IN \A i \in DOMAIN modules_ :
              /\ files[2 + i].content.docstring.template
                     = "MODULE_DOCSTRING_TEMPLATE"
              /\ files[2 + i].content.content
                     = _remove_existing_docstring(modules_[i].content)

\* C18: a call of generate_files with dry_run=True leaves the filesystem as
\* it was (no file written, no directory created), and in both modes the
\* returned list has one entry per input file, in input order: the path of
\* the file, or "[DRY RUN] Would create: " followed by that path.
C18_DryRunWritesNothing ==
    [][pc = "call" /\ pc' = "returned" =>
          LET files == args.transformation_result.files IN
          /\ args.dry_run => fs' = fs
          /\ Len(ret') = Len(files)
          /\ \A i \in DOMAIN files :
                ret'[i] = IF args.dry_run
                          THEN "[DRY RUN] Would create: " \o files[i].path
                          ELSE files[i].path]_vars

\* a dry run on two files or more whose output directory does not exist
C18_Witness ==
    /\ pc = "returned"
    /\ args.dry_run
    /\ Len(args.transformation_result.files) >= 2
    /\ ~Exists(fs, Path(args.transformation_result.output_path))
    /\ ret[1] = "[DRY RUN] Would create: "
                    \o args.transformation_result.files[1].path

\* C19: in a run with dry_run=True no step changes the filesystem, with or
\* without clean: no directory is created, no file written, nothing removed.
C19_DryRunLeavesFilesystem ==
    [][options.dry_run => fs' = fs]_vars

\* C20: in a run with analyze_only=True the transformation, the cleaning and
\* the file generation are never reached, whatever dry_run, verbose and
\* clean are; the filesystem stays as it was, and when the run returns it
\* returns success with the analysis result and nothing else.
C20_AnalyzeOnlyStopsAfterAnalysis ==
    options.analyze_only =>
        /\ pc \notin {"transform", "clean", "generate"}
        /\ \A k \in DOMAIN steps :
              steps[k] \in {"analyze_code", "print_analysis_report"}
        /\ transformation = <<>>
        /\ fs \in CliFilesystems(source)
        /\ pc = "returned" =>
              ret = [success |-> TRUE, analysis |-> AnalysisResult]

\* an analyze-only run with clean set and dry_run unset has returned
C20_Witness ==
    /\ pc = "returned"
    /\ options.analyze_only /\ ~options.dry_run /\ args.clean
    /\ ret.success
    /\ Len(ret.analysis.modules) = 2

\* the links of the cycle a recorded list closes: the list is the path from
\* the root of the search followed by the module met again, the cycle runs
\* from the first occurrence of that module to the end of the list
CycleLinks(cycle) ==
    LET last == cycle[Len(cycle)]
        first == CHOOSE i \in DOMAIN cycle :
                     cycle[i] = last /\ \A j \in 1..(i - 1) : cycle[j] # last
    IN [i \in 1..(Len(cycle) - first) |->
           <<cycle[first + i - 1], cycle[first + i]>>]

\* len(module_imports[name])
ImportCount(module_imports, name) == Len(GetImports(module_imports, name))

\* C21: whenever a pass of the loop over the detected cycles removes an
\* import, the removed import is a link of that cycle, no source of a link
\* of the cycle has fewer recorded imports than its source, and it is the
\* first such link of the cycle.
C21_RemovedLinkOnCycle ==
    [][pc = "break" /\ frame'.module_imports # frame.module_imports =>
          LET links == CycleLinks(frame.cycles[frame.k])
              count(i) == ImportCount(frame.module_imports, links[i][1])
          IN \E i \in DOMAIN links :
                 /\ frame'.weakest_link = links[i]
                 /\ \A j \in DOMAIN links : count(i) <= count(j)
                 /\ \A j \in 1..(i - 1) : count(i) < count(j)]_vars

\* the names imported by the modules of S
ImportsFrom(module_imports, S) ==
    UNION {Range(GetImports(module_imports, name)) : name \in S}

RECURSIVE Reachable(_, _)
\* the names reached from the names of S by following imports
Reachable(module_imports, S) ==
    LET T == S \cup ImportsFrom(module_imports, S)
    IN IF T = S THEN S ELSE Reachable(module_imports, T)

\* following imports from some module leads back to that module
Circular(module_imports) ==
    \E name \in Range(module_imports.keys) :
        name \in Reachable(module_imports,
                           ImportsFrom(module_imports, {name}))

\* C22: the mapping reorganize_imports returns has no circular dependency:
\* following imports from a module never leads back to that module.
C22_NoCircularImport ==
    pc = "returned" => ~Circular(ret)

RECURSIVE IsSubSeq(_, _)
\* s is t with some entries left out
IsSubSeq(s, t) ==
    IF s = <<>> THEN TRUE
    ELSE IF t = <<>> THEN FALSE
    ELSE IF Head(s) = Head(t) THEN IsSubSeq(Tail(s), Tail(t))
    ELSE IsSubSeq(s, Tail(t))

\* C28: reorganize_imports never raises and returns an entry for every
\* module of the list: the empty list for a name that is no node of the
\* graph, else the successors of the name without the removed ones.
C28_EntryForEveryModule ==
    pc \in {"raised", "returned"} =>
        /\ pc = "returned"
        /\ \A i \in DOMAIN args.modules :
               LET name == args.modules[i].name
               IN /\ name \in Range(ret.keys)
                  /\ IF name \notin args.dependency_graph.nodes
                     THEN ret.get[name] = <<>>
                     ELSE IsSubSeq(ret.get[name],
                              Successors(args.dependency_graph, name).value)

RECURSIVE SumLen(_, _)
\* the number of imports recorded under the keys ks
SumLen(module_imports, ks) ==
    IF ks = <<>> THEN 0
    ELSE Len(module_imports.get[Head(ks)])
             + SumLen(module_imports, Tail(ks))

TotalImports(module_imports) == SumLen(module_imports, module_imports.keys)

\* C29: _resolve_circular_dependencies returns for every mapping; the
\* result has the keys of the input in the same order, each list of the
\* result is the input list with some entries left out, each pass over a
\* detected cycle removes at most one import, and a mapping without a
\* directed cycle is returned as it was.
C29_OnlyRemovesImports ==
    /\ <>(pc = "returned")
    /\ [](pc = "returned" =>
            /\ ret.keys = args.module_imports.keys
            /\ DOMAIN ret.get = DOMAIN args.module_imports.get
            /\ \A name \in DOMAIN ret.get :
                   IsSubSeq(ret.get[name], args.module_imports.get[name])
            /\ TotalImports(args.module_imports) - TotalImports(ret)
                   <= Len(frame.cycles)
            /\ ~Circular(args.module_imports) => ret = args.module_imports)
    /\ [][pc = "break" /\ pc' = "break" =>
             TotalImports(frame.module_imports)
                 - TotalImports(frame'.module_imports) \in {0, 1}]_vars

\* a returned mapping that lost an import of a list with a repeated entry
\* and kept the list of another key
C29_Witness ==
    /\ pc = "returned"
    /\ Len(frame.cycles) >= 2
    /\ \E name \in DOMAIN ret.get :
           /\ Len(ret.get[name]) + 1 = Len(args.module_imports.get[name])
           /\ ret.get[name] # <<>>
           /\ ret.get[name][1] = args.module_imports.get[name][2]
           /\ args.module_imports.get[name][1]
                  = args.module_imports.get[name][2]
    /\ \E name \in DOMAIN ret.get :
           /\ ret.get[name] = args.module_imports.get[name]
           /\ ret.get[name] # <<>>

\* the boundary groups the modules of the run were made from
Groups ==
    _group_related_boundaries(AllBoundaries(source),
                              DEFAULT_PROXIMITY_THRESHOLD)

\* the 0-based lines the forward expansion added to module i
Absorbed(i) ==
    (Groups[i][Len(Groups[i])] + 1)..modules[i].end_line

\* the 0-based line k of the source is blank
Blank(k) == Strip(source[k + 1]) = ""

\* the 0-based line k of the source matches a boundary pattern
MatchesBoundary(k) == AnyPatternMatches(Strip(source[k + 1]))

\* C23 as stated: the end line of every module is the last line of the file
\* or is directly followed by a blank line or by a line matching a boundary
\* pattern, and no line the forward expansion absorbed is blank.
C23_ExpansionStopsAtBlankLine ==
    Detected =>
        \A i \in DOMAIN modules :
            LET end_line == modules[i].end_line
            IN /\ \/ end_line = Len(source) - 1
                  \/ Blank(end_line + 1)
                  \/ MatchesBoundary(end_line + 1)
               /\ \A k \in Absorbed(i) : ~Blank(k)

\* C23 amended: the end line of every module is the last line of the file,
\* or is directly followed by a line matching a boundary pattern or by two
\* blank lines; no absorbed line matches a boundary pattern, and an absorbed
\* blank line is the last line of the file or is directly followed by a
\* line that is not blank.
C23_ExpansionStopsAtTwoBlankLines ==
    Detected =>
        \A i \in DOMAIN modules :
            LET end_line == modules[i].end_line
            IN /\ \/ end_line = Len(source) - 1
                  \/ MatchesBoundary(end_line + 1)
                  \/ /\ end_line + 2 < Len(source)
                     /\ Blank(end_line + 1)
                     /\ Blank(end_line + 2)
               /\ \A k \in Absorbed(i) :
                      /\ ~MatchesBoundary(k)
                      /\ Blank(k) =>
                             k = Len(source) - 1 \/ ~Blank(k + 1)

\* a module whose expansion went across a blank line into the code after it
\* and stopped in front of a boundary line
C23_Witness ==
    /\ Detected
    /\ \E i \in DOMAIN modules :
           /\ \E k \in Absorbed(i) : Blank(k) /\ k < modules[i].end_line
           /\ modules[i].end_line < Len(source) - 1
           /\ MatchesBoundary(modules[i].end_line + 1)

\* the class and function definitions of a tree that are direct children of
\* the module and whose name has no leading underscore
TopLevelPublic(tree) ==
    {k \in DOMAIN tree : /\ tree[k].type \in {"ClassDef", "FunctionDef"}
                         /\ tree[k].top
                         /\ ~StartsWithUnderscore(tree[k].id)}

\* C24: once detection has run on a source that parses, the definition scan
\* has completed without error and has recorded line_number - 1 for exactly
\* the top-level class and function definitions without a leading
\* underscore, so none nested in a class or function.
C24_DefinitionScanTopLevelOnly ==
    (pc \notin {"start", "imports_analyzed"} /\ Parses(source)) =>
        LET tree == AstWalk(source)
            scan == _find_definition_boundaries(tree)
        IN /\ error # "AttributeError"
           /\ ~scan.raised
           /\ Range(scan.value) = {tree[k].lineno - 1 : k \in TopLevelPublic(tree)}

\* the first statement of the content is a triple-quoted string
HasLeadingDocstring(content) ==
    /\ FirstStatementLine(content) # 0
    /\ content[FirstStatementLine(content)]
           \in {DocLine, EmptyDocLine, SpaceDocLine, TripleQuoteLine}

\* the name contains an indicator of the purpose table
HasIndicator(name) ==
    \E p \in DOMAIN MODULE_PURPOSE_INDICATORS :
        \E k \in DOMAIN MODULE_PURPOSE_INDICATORS[p].indicators :
            IsSubstring(MODULE_PURPOSE_INDICATORS[p].indicators[k], Lower(name))

\* C25: the purpose of every module extract_semantic_purpose returns is, by
\* strict priority: the first line of the leading docstring when the
\* content has one, the full docstring then being stored; else the text of
\* the first comment line starting with a letter; else the inferred
\* purpose, which is the keyword-table text when the name has an indicator,
\* else the entity text for a class with an initializer, else the
\* functionality text for more than three function definitions, else the
\* "Handles ... operations" text.  The docstring field is set in the first
\* case only.
C25_PurposeByStrictPriority ==
    pc = "returned" =>
        \A i \in DOMAIN modules :
            LET module == modules[i]
                content == module.content
                name == UnderscoresToSpaces(module.name)
                docstring == StripPieces(DocstringMatch(content).group)
                comment == FirstMatch(content, CommentTextIn)
            IN IF HasLeadingDocstring(content)
               THEN /\ "docstring" \in DOMAIN module
                    /\ module.docstring = Join(docstring)
                    /\ module.purpose = Join(StripPieces(FirstLine(docstring)))
               ELSE /\ "docstring" \notin DOMAIN module
                    /\ IF comment # NoMatch THEN module.purpose = comment
                       ELSE IF HasIndicator(module.name)
                       THEN module.purpose = infer_purpose(<<>>, module.name)
                       ELSE IF /\ \E k \in DOMAIN content :
                                      ContainsClass(content[k])
                               /\ \E k \in DOMAIN content :
                                      ContainsDefInit(content[k])
                       THEN module.purpose =
                                "Defines the " \o Title(name) \o " entity"
                       ELSE IF CountDefs(content) > 3
                       THEN module.purpose =
                                "Provides " \o name \o " functionality"
                       ELSE module.purpose =
                                "Handles " \o name \o " operations"

\* the modules as detection returned them, and as the enrichment left them
DetectedModules == detect_module_boundaries(source).value
EnrichedModules == extract_semantic_purpose(DetectedModules).value

\* C26: the stages after detection other than the enrichment only read the
\* modules: after build_dependency_graph the list of modules is the one
\* detection returned, every field of every module included, and after
\* transform_code the analysis result is the one the analysis returned:
\* the enriched modules, the graph of the detected modules and the import
\* table of the source.
C26_ModulesReadOnly ==
    /\ pc = "graphed" => modules = DetectedModules
    /\ pc = "transformed" =>
           /\ modules = EnrichedModules
           /\ dependencies = build_dependency_graph(DetectedModules).value
           /\ symbol_table = analyze_imports(source).value

\* a transformed run of two modules or more with their purposes
C26_Witness ==
    /\ pc = "transformed"
    /\ Len(modules) >= 2
    /\ \A i \in DOMAIN modules : "purpose" \in DOMAIN modules[i]
    /\ Len(transformation.files) = 2 + Len(modules)

\* the entries of the output directory that one of the keep patterns matches
KeptEntries(f) ==
    {item \in Glob(f, Path(transformation.output_path)) :
        \E k \in DOMAIN DEFAULT_KEEP_PATTERNS :
            PathMatch(item, DEFAULT_KEEP_PATTERNS[k])}

\* every file of the transformation is on the filesystem with its content
FilesGenerated ==
    \A i \in DOMAIN transformation.files :
        LET file_path == Path(transformation.files[i].path)
        IN /\ file_path \in DOMAIN fs.files
           /\ fs.files[file_path] = transformation.files[i].content

\* the transformation lists no path twice
PathsDistinct ==
    \A i, j \in DOMAIN transformation.files :
        transformation.files[i].path = transformation.files[j].path => i = j

\* C27: in a run with clean=True and dry_run=False the cleaning comes
\* strictly before the generation: when generate_files starts the cleaning
\* has run and the output directory holds kept entries only; when the run
\* has returned every file of the transformation exists with its generated
\* content; and the cleaning step leaves every entry of the output
\* directory that matches a keep pattern as it was.
C27_CleanBeforeGenerate ==
    /\ [](args.clean /\ ~options.dry_run =>
            /\ \A k \in DOMAIN steps :
                  steps[k] = "generate_files" =>
                      \E j \in 1..(k - 1) : steps[j] = "clean_output_directory"
            /\ pc = "generate" =>
                  /\ steps[Len(steps)] = "clean_output_directory"
                  /\ Glob(fs, Path(transformation.output_path)) = KeptEntries(fs)
            /\ pc = "returned" /\ ~options.analyze_only => FilesGenerated)
    /\ [][args.clean /\ ~options.dry_run /\ pc = "clean" =>
            \A item \in KeptEntries(fs) :
                /\ Exists(fs', item)
                /\ item \in DOMAIN fs.files =>
                       /\ item \in DOMAIN fs'.files
                       /\ fs'.files[item] = fs.files[item]]_vars

\* the files are generated in the runs whose transformation has pairwise
\* distinct file paths
FilesGeneratedWhenPathsDistinct ==
    pc = "returned" /\ ~options.analyze_only /\ args.clean /\ ~options.dry_run
        /\ PathsDistinct => FilesGenerated

\* C30: the returned modules are in source order: there is one module per
\* boundary group, the groups are in ascending line order, the i-th module
\* is the expansion of the i-th group and contains its boundaries, a module
\* for which no name is derived from its content is named module_<i> with i
\* its 0-based position in the list, and start_line never decreases along
\* the list.
C30_ModulesInSourceOrder ==
    Detected =>
        /\ Len(modules) = Len(Groups)
        /\ \A i \in 1..(Len(Groups) - 1) :
               Groups[i][Len(Groups[i])] < Groups[i + 1][1]
        /\ \A i \in DOMAIN modules :
               LET group == Groups[i]
                   module == modules[i]
               IN /\ module.start_line = _find_module_start(group[1], source)
                  /\ module.end_line
                         = _find_module_end(group[Len(group)], source)
                  /\ \A k \in DOMAIN group :
                         Covers(module, group[k])
                  /\ _extract_module_name(module.content, None) = None =>
                         module.name = ModuleDefaultName(i - 1)
        /\ \A i \in 1..(Len(modules) - 1) :
               modules[i].start_line <= modules[i + 1].start_line

\* two modules or more, one of them after the first with its fallback
\* name and one with a name derived from its content
C30_Witness ==
    /\ Detected
    /\ Len(modules) >= 2
    /\ \E i \in 2..Len(modules) : modules[i].name = ModuleDefaultName(i - 1)
    /\ \E i \in DOMAIN modules :
           _extract_module_name(modules[i].content, None) # None
====
